---- MODULE Spec2Model ----
(***************************************************************************)
(* Model of src/FrontApp/flask_chatbot_app.py: the tool walker             *)
(* (_collect_tool_details), output extraction                              *)
(* (extract_code_interpreter_outputs) with the path of its result through  *)
(* handle_agent_query and /api/chat, the sync-to-async bridge              *)
(* (_start_agent_loop, run_in_agent_loop), the requests of a session       *)
(* (chat, initialize_agent, clear_session); and of query_data in           *)
(* src/MCP_PostgreSQL/azure_postgresql_mcp_sse.py.                         *)
(*                                                                         *)
(* The specifications share the variables: SpecWalk runs the walker on a   *)
(* family of object graphs, SpecRecon runs output extraction on a chunk    *)
(* sequence, SpecRepeat runs it twice, SpecTurn runs one turn from its     *)
(* first stream to the answer of /api/chat, SpecThread runs the turns of   *)
(* one thread, SpecLoop runs a turn against a runtime that may ask for     *)
(* approval in every stream (SpecLoopFair: with the turn scheduled),       *)
(* SpecBridge runs caller threads against the bridge (SpecBridgeFair:      *)
(* with its threads scheduled), SpecSessions runs concurrent requests of   *)
(* one session and SpecQuery runs query_data.                              *)
(***************************************************************************)
EXTENDS Integers, Sequences, FiniteSets, TLC

VARIABLES
    heap,        \* the object graph reachable from the walked object(s)
    raw_obj,     \* _collect_tool_details: its argument
    stack,       \* pending _walk(obj, depth) calls, innermost first
    collected,   \* _collect_tool_details: the list `collected`
    visited,     \* history: frames that passed the guard of line 83
    emitted,     \* history: the frame that appended collected[i]
    wpc,         \* walker position: "idle" | "walking" | "returned"
    chunks,      \* response.raw_representation (None is the value NoChunks)
    final_text,  \* str(response): the final text, as a sequence of tokens
    history,     \* the messages of the thread, as messages.list yields them
    idx,         \* extract_code_interpreter_outputs: loop index (1-based)
    xpc,         \* position in extract / handle_agent_query / chat
    arrivals,    \* history: image file_ids in order of arrival (line 189)
    rawDetails,  \* history: outputs["tool_details"] as left by the loop
    outputs,     \* extract_code_interpreter_outputs: the dict `outputs`
    result,      \* handle_agent_query's return value
    apiResponse, \* the JSON body returned by chat()
    agent_loop,        \* the global agent_loop (0: None)
    loops,       \* the event loops created: running flag and callback queue
    cpc,         \* per caller thread: position in run_in_agent_loop
    timeout,     \* per caller: whether the call was given a timeout
    loop_ready,  \* per caller: the Event loop_ready of its _start_agent_loop
    loop,        \* per caller: run_in_agent_loop's local `loop` (0: unset)
    future,      \* per caller: run_in_agent_loop's local `future` (0: unset)
    outcome,     \* per caller: what run_in_agent_loop returned or raised
    tpc,         \* per caller: position of the thread its start spawned
    tasks,       \* the work items submitted, by future: payload, loop, state
    futures,     \* the concurrent futures: pending, or the result delivered
    streamed,    \* history: the result of every stream of the turn, in order
    pending,     \* handle_agent_query: len(result.user_input_requests)
    approvals,   \* history: the approval resubmissions of the turn, in order
    lookup,      \* how the history lookup of the turn goes (an input)
    looked,      \* history: whether messages.list was called
    exc,         \* the message of the exception leaving the turn ("": none)
    previous,    \* what an earlier extraction of the same result gave
    db,          \* query_data: the committed state of the database
    tx,          \* query_data: the state its open transaction sees
    qpc,         \* query_data: position
    stmt,        \* query_data: the statement s
    fetched,     \* query_data: whether fetchall has returned rows
    qresult,     \* query_data: what the last call returned
    queries,     \* history: how many calls of query_data were made
    runtime,     \* how the remote runtime answers resubmissions (an input)
    agent_initialized, \* the global agent_initialized
    agent,       \* the global agent (0: None)
    chat_client, \* the global chat_client (0: None)
    threads,     \* threads[session_id] of the one session (NoThread: no such key)
    rkind,       \* per request: "chat" (/api/chat) or "clear" (/api/clear-session)
    rpc,         \* per request: position in its handler
    rthread,     \* per request: chat()'s local `thread` (NoThread: unset)
    created      \* history: how many clients, agents and threads were created

walkVars == <<heap, raw_obj, stack, collected, visited, emitted, wpc>>
reconVars ==
    <<chunks, final_text, history, idx, xpc, arrivals, rawDetails, outputs,
      result, apiResponse>>

bridgeVars ==
    <<agent_loop, loops, cpc, timeout, loop_ready, loop, future, outcome, tpc,
      tasks, futures>>

turnVars == <<streamed, pending, approvals, lookup, looked, exc, previous>>

queryVars == <<db, tx, qpc, stmt, fetched, qresult, queries>>

appVars ==
    <<runtime, agent_initialized, agent, chat_client, threads, rkind, rpc,
      rthread, created>>

\* What neither the walker nor the loop of output extraction touches.
others == <<bridgeVars, turnVars, queryVars, appVars>>

\* What the walker leaves alone.
notWalk == <<reconVars, others>>

----------------------------------------------------------------------------
(* Values *)

\* A key or attribute that is not there.
Absent == "<absent>"

\* line 83: the fixed recursion bound
DepthBound == 10

\* arguments values: raw text, a structured mapping, or null
ArgText(t) == [kind |-> "str", val |-> t]
ArgDict == [kind |-> "dict", val |-> "{}"]
ArgNull == [kind |-> "null", val |-> ""]
ArgAbsent == [kind |-> "absent", val |-> ""]

\* Texts json.loads accepts ("{x:1}" is not JSON: its key is unquoted).
ValidJson == {"{}"}

\* lines 99-102 and 119-122: json.loads of a str, the raw value otherwise
\* or when json.loads raises.
ArgumentsParsed(a) ==
    IF a.kind = "str" /\ a.val \in ValidJson
    THEN [kind |-> "dict", val |-> a.val]
    ELSE a

\* An object of the graph. kind: "none" (None), "dict", "seq" (list, tuple or
\* set), "typed" (RunStepMcpToolCall) or "other" (anything else: str, int,
\* ChatResponseUpdate, an SDK model). data is the object's _data attribute
\* (0: no such attribute). The fields tag..output are the keys type, id, name,
\* server_label, arguments, output of a dict, or the attributes of a typed
\* record. step and calls are the values of the keys step_details and
\* tool_calls (0: no such key), rest the other values in insertion order,
\* items the elements of a sequence. A value that is a str or a number is an
\* object of kind "other" with no _data: _walk returns from it without effect,
\* so rest lists only the values the graphs below give an object of their own.
Blank ==
    [kind |-> "other", data |-> 0, tag |-> Absent, id |-> Absent,
     name |-> Absent, server |-> Absent, arguments |-> ArgAbsent,
     output |-> Absent, step |-> 0, calls |-> 0, rest |-> <<>>, items |-> <<>>]

NoneObj == [Blank EXCEPT !.kind = "none"]
SeqObj(items) == [Blank EXCEPT !.kind = "seq", !.items = items]
Envelope(data) == [Blank EXCEPT !.data = data]
DictObj == [Blank EXCEPT !.kind = "dict"]
ToolDict(name, args, server, output) ==
    [Blank EXCEPT !.kind = "dict", !.tag = "mcp", !.id = "call_1",
                  !.name = name, !.arguments = args, !.server = server,
                  !.output = output]
TypedCall(name, args, server, output) ==
    [Blank EXCEPT !.kind = "typed", !.tag = "mcp", !.id = "call_1",
                  !.name = name, !.arguments = args, !.server = server,
                  !.output = output]

Frame(o, d) == [obj |-> o, depth |-> d]

----------------------------------------------------------------------------
(* _collect_tool_details *)

\* dict.get(key, default) / getattr(obj, key, default)
GetOr(v, default) == IF v = Absent THEN default ELSE v

\* line 83, second disjunct (mutant: the bound is reached one level early)
DepthExceeded_early(depth) == depth >= DepthBound
DepthExceeded(depth) == depth > DepthBound

\* line 87: hasattr(obj, '_data') and hasattr(obj._data, 'get')
\* (mutant: the test comes after the one of line 91)
HasEnvelope_afterTyped(o) ==
    heap[o].data # 0 /\ heap[heap[o].data].kind = "dict"
    /\ heap[o].kind # "typed"
HasEnvelope(o) == heap[o].data # 0 /\ heap[heap[o].data].kind = "dict"

\* truthiness of obj.get("name")
Truthy(v) == v \notin {Absent, ""}

\* line 111 (mutant: the 'id' test is missing)
IsToolCallMapping_noId(o) == heap[o].tag = "mcp" /\ Truthy(heap[o].name)
IsToolCallMapping(o) ==
    heap[o].tag = "mcp" /\ heap[o].id # Absent /\ Truthy(heap[o].name)

\* lines 92-102: the record of a RunStepMcpToolCall (it has no "id" key)
TypedRecord(o) ==
    LET a == IF heap[o].arguments.kind = "absent" THEN ArgText("{}")
             ELSE heap[o].arguments
    IN [name |-> GetOr(heap[o].name, "unknown"),
        server |-> GetOr(heap[o].server, "unknown"),
        arguments |-> a,
        output |-> GetOr(heap[o].output, ""),
        id |-> Absent,
        arguments_parsed |-> ArgumentsParsed(a)]

\* lines 112-122: the record of a qualifying dict
MappingRecord(o) ==
    LET a == IF heap[o].arguments.kind = "absent" THEN ArgText("{}")
             ELSE heap[o].arguments
    IN [name |-> GetOr(heap[o].name, "unknown"),
        server |-> GetOr(heap[o].server, "unknown"),
        arguments |-> a,
        output |-> GetOr(heap[o].output, ""),
        id |-> GetOr(heap[o].id, ""),
        arguments_parsed |-> ArgumentsParsed(a)]

\* lines 129-135: the nested calls of a dict, in call order
\* (mutant: a dict that gave a record is not walked further)
MappingChildren_hitReturns(o) ==
    IF IsToolCallMapping(o) THEN <<>>
    ELSE (IF heap[o].step # 0 THEN <<heap[o].step>> ELSE <<>>)
         \o (IF heap[o].calls # 0 THEN <<heap[o].calls>> ELSE <<>>)
         \o heap[o].rest
MappingChildren(o) ==
    (IF heap[o].step # 0 THEN <<heap[o].step>> ELSE <<>>)
    \o (IF heap[o].calls # 0 THEN <<heap[o].calls>> ELSE <<>>)
    \o heap[o].rest

\* The calls _walk(c, depth + 1) for c in cs, ahead of what is pending.
PushCalls(cs, depth, rest) ==
    [i \in 1..Len(cs) |-> Frame(cs[i], depth + 1)] \o rest

Top == Head(stack)
Walking == wpc = "walking" /\ stack # <<>>

\* line 143: _walk(raw_obj) with an empty `collected`
WalkCall(o) ==
    /\ raw_obj' = o
    /\ stack' = <<Frame(o, 0)>>
    /\ collected' = <<>>
    /\ visited' = <<>>
    /\ emitted' = <<>>
    /\ wpc' = "walking"

\* lines 83-84
WalkStop ==
    /\ Walking
    /\ IF heap[Top.obj].kind = "none" THEN TRUE ELSE DepthExceeded(Top.depth)
    /\ stack' = Tail(stack)
    /\ UNCHANGED <<heap, raw_obj, collected, visited, emitted, wpc>>
    /\ UNCHANGED notWalk

Passes == Walking /\ heap[Top.obj].kind # "none" /\ ~DepthExceeded(Top.depth)

\* lines 87-89
WalkUnwrap ==
    /\ Passes
    /\ HasEnvelope(Top.obj)
    /\ stack' = PushCalls(<<heap[Top.obj].data>>, Top.depth, Tail(stack))
    /\ visited' = Append(visited, Top)
    /\ UNCHANGED <<heap, raw_obj, collected, emitted, wpc>>
    /\ UNCHANGED notWalk

\* lines 91-105
WalkTyped ==
    /\ Passes
    /\ ~HasEnvelope(Top.obj)
    /\ heap[Top.obj].kind = "typed"
    /\ collected' = Append(collected, TypedRecord(Top.obj))
    /\ emitted' = Append(emitted, Top)
    /\ visited' = Append(visited, Top)
    /\ stack' = Tail(stack)
    /\ UNCHANGED <<heap, raw_obj, wpc>>
    /\ UNCHANGED notWalk

\* lines 107-136
WalkMapping ==
    /\ Passes
    /\ ~HasEnvelope(Top.obj)
    /\ heap[Top.obj].kind = "dict"
    /\ IF IsToolCallMapping(Top.obj)
       THEN /\ collected' = Append(collected, MappingRecord(Top.obj))
            /\ emitted' = Append(emitted, Top)
       ELSE UNCHANGED <<collected, emitted>>
    /\ visited' = Append(visited, Top)
    /\ stack' = PushCalls(MappingChildren(Top.obj), Top.depth, Tail(stack))
    /\ UNCHANGED <<heap, raw_obj, wpc>>
    /\ UNCHANGED notWalk

\* lines 138-141
WalkSequence ==
    /\ Passes
    /\ ~HasEnvelope(Top.obj)
    /\ heap[Top.obj].kind = "seq"
    /\ visited' = Append(visited, Top)
    /\ stack' = PushCalls(heap[Top.obj].items, Top.depth, Tail(stack))
    /\ UNCHANGED <<heap, raw_obj, collected, emitted, wpc>>
    /\ UNCHANGED notWalk

\* line 82: no rule applies and _walk falls off its end
WalkOpaque ==
    /\ Passes
    /\ ~HasEnvelope(Top.obj)
    /\ heap[Top.obj].kind = "other"
    /\ visited' = Append(visited, Top)
    /\ stack' = Tail(stack)
    /\ UNCHANGED <<heap, raw_obj, collected, emitted, wpc>>
    /\ UNCHANGED notWalk

\* line 144: return collected
WalkReturn ==
    /\ wpc = "walking"
    /\ stack = <<>>
    /\ wpc' = "returned"
    /\ UNCHANGED <<heap, raw_obj, stack, collected, visited, emitted>>
    /\ UNCHANGED notWalk

----------------------------------------------------------------------------
(* Object graphs for the walker *)

\* Length of the chain of nested lists in ChainGraph.
ChainLen == 12

\* The probed mapping: every combination of the three tested keys.
Probes ==
    { [DictObj EXCEPT !.tag = t, !.id = i, !.name = n,
                      !.server = "s1", !.arguments = ArgText("{}"),
                      !.output = "o1"] :
        t \in {"mcp", "other", Absent}, i \in {"call_1", Absent},
        n \in {"A", "", Absent} }

\* A mapping that holds itself.
SelfCycle(p) == << [p EXCEPT !.rest = <<1>>] >>

\* An SDK model whose envelope holds the model again.
EnvelopeCycle(p) == << Envelope(2), [p EXCEPT !.rest = <<1>>] >>

\* A server configuration (tagged mcp, no id) over step details, tool calls
\* and a typed record; the list names the probe twice.
StepGraph(p) ==
    << [DictObj EXCEPT !.tag = "mcp", !.name = "cfg", !.step = 2,
                       !.calls = 3, !.rest = <<4, 5>>],
       [p EXCEPT !.calls = 3],
       SeqObj(<<4, 6, 2>>),
       TypedCall("B", ArgText("{x:1}"), "s2", "o2"),
       NoneObj,
       ToolDict("B", ArgText("{}"), "s1", "o1") >>

\* A typed record that also has an envelope, in a cycle of three.
TypedCycle(p) ==
    << [TypedCall("B", ArgText("{}"), "s2", "o2") EXCEPT !.data = 2],
       [p EXCEPT !.calls = 3],
       SeqObj(<<1, 4>>),
       [Blank EXCEPT !.data = 3] >>

\* Two cycles of lengths one and two through the probe.
BranchCycle(p) ==
    << [p EXCEPT !.step = 2, !.rest = <<1>>], SeqObj(<<1>>) >>

\* ChainLen nested lists around the probe.
ChainGraph(p) ==
    [i \in 1..(ChainLen + 1) |->
        IF i <= ChainLen THEN SeqObj(<<i + 1>>) ELSE p]

\* A tool call mapping over step details (the probe), tool calls (a list
\* of one tool call mapping) and another field holding a tool call mapping.
NestGraph(p) ==
    << [ToolDict("A", ArgText("{}"), "s1", "o1") EXCEPT
            !.step = 2, !.calls = 3, !.rest = <<4>>],
       p,
       SeqObj(<<5>>),
       ToolDict("C", ArgText("{}"), "s1", "o1"),
       ToolDict("B", ArgText("{}"), "s1", "o1") >>

\* A list of two wrappers around the probe: a typed record with an envelope,
\* and a list-like wrapper whose own element is a tool call mapping.
WrapperGraph(p) ==
    << SeqObj(<<2, 4>>),
       [TypedCall("B", ArgText("{}"), "s2", "o2") EXCEPT !.data = 3],
       p,
       [SeqObj(<<5>>) EXCEPT !.data = 3],
       ToolDict("C", ArgText("{}"), "s1", "o1") >>

WalkGraphs ==
    UNION { {SelfCycle(p), EnvelopeCycle(p), StepGraph(p), TypedCycle(p),
             BranchCycle(p), ChainGraph(p), NestGraph(p), WrapperGraph(p)} :
            p \in Probes }

----------------------------------------------------------------------------
(* extract_code_interpreter_outputs *)

Range(q) == {q[i] : i \in 1..Len(q)}


\* line 149-154
NoOutputs ==
    [images |-> <<>>, files |-> <<>>, tools |-> <<>>, tool_details |-> <<>>]

\* One output of a code interpreter delta: an image output ("image", or
\* "image_none" when its image is missing or empty), a log output ("log"),
\* or another output, which may expose a file_id ("file").
ImageOutput(id) == [kind |-> "image", file_id |-> id]
EmptyImageOutput == [kind |-> "image_none", file_id |-> Absent]
LogOutput == [kind |-> "log", file_id |-> Absent]
FileOutput(id) == [kind |-> "file", file_id |-> id]

\* A chunk: whether it is a ChatResponseUpdate, whether its
\* raw_representation is a RunStepDeltaCodeInterpreterDetailItemObject, that
\* object's outputs, and the objects that are the raw_representation and
\* the chunk itself.
Chunk(update, detail, outs, raw, self) ==
    [update |-> update, detail |-> detail, outputs |-> outs, raw |-> raw,
     self |-> self]

\* Stands for response.raw_representation being None: no list, marked by
\* one chunk that refers to no object.
NoChunks == <<Chunk(FALSE, FALSE, <<>>, 0, 0)>>

\* An entry of outputs["files"]: a bare file_id string (dict = FALSE) or a
\* dict with the keys file_id, file_name, file_type (None is Absent).
FileId(id) ==
    [dict |-> FALSE, file_id |-> id, file_name |-> Absent, file_type |-> Absent]
FileInfo(id, name, type) ==
    [dict |-> TRUE, file_id |-> id, file_name |-> name, file_type |-> type]

\* lines 184-197: the image file_ids one chunk appends
RECURSIVE ChunkImages(_)
ChunkImages(outs) ==
    IF outs = <<>> THEN <<>>
    ELSE (IF Head(outs).kind = "image" THEN <<Head(outs).file_id>> ELSE <<>>)
         \o ChunkImages(Tail(outs))

\* lines 184-197: the file entries one chunk appends
RECURSIVE ChunkFiles(_)
ChunkFiles(outs) ==
    IF outs = <<>> THEN <<>>
    ELSE (IF Head(outs).kind = "file" THEN <<FileId(Head(outs).file_id)>>
          ELSE <<>>)
         \o ChunkFiles(Tail(outs))

\* lines 215-220: unique file_ids, first-seen order
RECURSIVE UniqueImagesFrom(_, _)
UniqueImagesFrom(ids, unique) ==
    IF ids = <<>> THEN unique
    ELSE UniqueImagesFrom(Tail(ids),
            IF Head(ids) \in Range(unique) THEN unique
            ELSE Append(unique, Head(ids)))
UniqueImages(ids) == UniqueImagesFrom(ids, <<>>)

\* lines 224-230 (mutants: the first unique image is kept; every unique
\* image is kept)
KeptImages_first(unique) ==
    IF Len(unique) > 1 THEN <<unique[1]>> ELSE unique
KeptImages_all(unique) == unique
KeptImages(unique) ==
    IF Len(unique) > 1 THEN <<unique[Len(unique)]>> ELSE unique

\* line 238: the key (name, arguments)
DetailKey(detail) == <<detail.name, detail.arguments>>

\* lines 235-242 (mutant: a repeated key replaces the record kept for it)
RECURSIVE UniqueDetailsFrom(_, _)
UniqueDetailsFrom(details, unique) ==
    IF details = <<>> THEN unique
    ELSE UniqueDetailsFrom(Tail(details),
            IF \E i \in 1..Len(unique) : DetailKey(unique[i]) = DetailKey(Head(details))
            THEN unique
            ELSE Append(unique, Head(details)))
RECURSIVE UniqueDetails_lastWins(_)
UniqueDetails_lastWins(details) ==
    IF details = <<>> THEN <<>>
    ELSE LET before == UniqueDetails_lastWins(SubSeq(details, 1, Len(details) - 1))
             last == details[Len(details)]
         IN IF \E i \in 1..Len(before) : DetailKey(before[i]) = DetailKey(last)
            THEN [i \in 1..Len(before) |->
                    IF DetailKey(before[i]) = DetailKey(last) THEN last
                    ELSE before[i]]
            ELSE Append(before, last)
UniqueDetails(details) == UniqueDetailsFrom(details, <<>>)

\* line 245 (mutant: the labels are derived from the list as the loop left
\* it, before deduplication)
ToolLabel(detail) == detail.server \o ":" \o detail.name
ToolLabels_beforeDedup(details) ==
    [i \in 1..Len(outputs.tool_details) |-> ToolLabel(outputs.tool_details[i])]
ToolLabels(details) == [i \in 1..Len(details) |-> ToolLabel(details[i])]

\* line 238 raises TypeError for an unhashable key (arguments that are a
\* mapping); line 262 raises TypeError when arguments cannot be sliced.
Hashable(a) == a.kind # "dict"
Sliceable(a) == a.kind = "str"
ExtractRaises(details) ==
    \/ \E i \in 1..Len(details) : ~Hashable(details[i].arguments)
    \/ \E i \in 1..Len(details) : ~Sliceable(details[i].arguments)

\* A token of the final text: a word, or a reference
\* sandbox:/mnt/data/<file>.<ext> closed by ")".
Word(w) == [kind |-> "word", file |-> w, ext |-> ""]
SandboxRef(file, ext) == [kind |-> "sandbox", file |-> file, ext |-> ext]

\* line 275: the extensions of the pattern, matched with re.IGNORECASE
ScannedExtensions ==
    {"pptx", "xlsx", "csv", "pdf", "docx", "txt", "json", "png", "jpg"}
Lower(e) == IF e = "PDF" THEN "pdf" ELSE e

\* lines 275-292: one file_info per match of the pattern
RECURSIVE SandboxFiles(_)
SandboxFiles(text) ==
    IF text = <<>> THEN <<>>
    ELSE LET t == Head(text) IN
         (IF t.kind = "sandbox" /\ Lower(t.ext) \in ScannedExtensions
          THEN <<FileInfo(Absent, t.file \o "." \o t.ext, t.ext)>>
          ELSE <<>>)
         \o SandboxFiles(Tail(text))

\* lines 295-305: seen_files, as its keys and values in insertion order
RECURSIVE DedupFilesFrom(_, _, _)
DedupFilesFrom(files, keys, values) ==
    IF files = <<>> THEN values
    ELSE LET f == Head(files) IN
         IF f.dict
         THEN IF Truthy(f.file_name) /\ f.file_name \notin Range(keys)
              THEN DedupFilesFrom(Tail(files), Append(keys, f.file_name),
                                  Append(values, f))
              ELSE DedupFilesFrom(Tail(files), keys, values)
         ELSE IF f.file_id \notin Range(keys)
              THEN DedupFilesFrom(Tail(files), Append(keys, f.file_id),
                                  Append(values, FileInfo(f.file_id, Absent, Absent)))
              ELSE DedupFilesFrom(Tail(files), keys, values)
\* (mutant of DedupFiles: every entry is kept)
DedupFiles_none(files) ==
    [i \in 1..Len(files) |->
        IF files[i].dict THEN files[i]
        ELSE FileInfo(files[i].file_id, Absent, Absent)]
DedupFiles(files) == DedupFilesFrom(files, <<>>, <<>>)

\* lines 214-308: what the function returns once the loop is over
Reconciled(images, files, details) ==
    [images |-> KeptImages(UniqueImages(images)),
     files |-> DedupFiles(files \o SandboxFiles(final_text)),
     tools |-> ToolLabels(UniqueDetails(details)),
     tool_details |-> UniqueDetails(details)]

\* lines 149-154: the dict the function starts from is built anew by every
\* call (mutant: the dict of the call before is used again)
InitialOutputs_stale == outputs
InitialOutputs == NoOutputs

\* lines 149-166: raw_representation None returns the empty outputs
ExtractBegin ==
    /\ xpc = "extract"
    /\ outputs' = InitialOutputs
    /\ IF chunks = NoChunks
       THEN xpc' = "extracted" /\ idx' = 0
       ELSE xpc' = "loop" /\ idx' = 1
    /\ UNCHANGED <<chunks, final_text, history, arrivals, rawDetails, result,
                   apiResponse>>
    /\ UNCHANGED walkVars
    /\ UNCHANGED others

\* lines 172-202 for a ChatResponseUpdate: its outputs are read and
\* _collect_tool_details(raw) is called
ChunkUpdate ==
    /\ xpc = "loop"
    /\ idx <= Len(chunks)
    /\ chunks[idx].update
    /\ LET outs == IF chunks[idx].detail THEN chunks[idx].outputs ELSE <<>> IN
         /\ outputs' = [outputs EXCEPT
                          !.images = @ \o ChunkImages(outs),
                          !.files = @ \o ChunkFiles(outs)]
         /\ arrivals' = arrivals \o ChunkImages(outs)
    /\ WalkCall(chunks[idx].raw)
    /\ xpc' = "walk_raw"
    /\ UNCHANGED <<heap, chunks, final_text, history, idx, rawDetails, result,
                   apiResponse>>
    /\ UNCHANGED others

\* lines 172-180, 209 for any other chunk: _collect_tool_details(chunk)
ChunkOther ==
    /\ xpc = "loop"
    /\ idx <= Len(chunks)
    /\ ~chunks[idx].update
    /\ WalkCall(chunks[idx].self)
    /\ xpc' = "walk_chunk"
    /\ UNCHANGED <<heap, chunks, final_text, history, idx, arrivals, rawDetails,
                   outputs, result, apiResponse>>
    /\ UNCHANGED others

\* lines 202-209: the walk of raw returns, its records are appended and
\* _collect_tool_details(chunk) is called
ChunkRawWalked ==
    /\ xpc = "walk_raw"
    /\ wpc = "walking"
    /\ stack = <<>>
    /\ outputs' = [outputs EXCEPT !.tool_details = @ \o collected]
    /\ WalkCall(chunks[idx].self)
    /\ xpc' = "walk_chunk"
    /\ UNCHANGED <<heap, chunks, final_text, history, idx, arrivals, rawDetails,
                   result, apiResponse>>
    /\ UNCHANGED others

\* lines 209-212: the walk of the chunk returns, its records are appended
ChunkWalked ==
    /\ xpc = "walk_chunk"
    /\ wpc = "walking"
    /\ stack = <<>>
    /\ outputs' = [outputs EXCEPT !.tool_details = @ \o collected]
    /\ idx' = idx + 1
    /\ xpc' = "loop"
    /\ wpc' = "idle"
    /\ UNCHANGED <<heap, raw_obj, stack, collected, visited, emitted>>
    /\ UNCHANGED <<chunks, final_text, history, arrivals, rawDetails, result,
                   apiResponse>>
    /\ UNCHANGED others

\* lines 214-308: the loop is over; the outputs are reconciled and returned,
\* or a TypeError leaves the function
Reconcile ==
    /\ xpc = "loop"
    /\ idx > Len(chunks)
    /\ rawDetails' = outputs.tool_details
    /\ IF ExtractRaises(outputs.tool_details)
       THEN xpc' = "raised" /\ exc' = "TypeError" /\ UNCHANGED outputs
       ELSE /\ xpc' = "extracted"
            /\ outputs' = Reconciled(outputs.images, outputs.files,
                                     outputs.tool_details)
            /\ UNCHANGED exc
    /\ UNCHANGED <<chunks, final_text, history, idx, arrivals, result,
                   apiResponse>>
    /\ UNCHANGED <<streamed, pending, approvals, lookup, looked, previous>>
    /\ UNCHANGED walkVars
    /\ UNCHANGED <<bridgeVars, queryVars, appVars>>

----------------------------------------------------------------------------
(* handle_agent_query, lines 316-337: the streams of a turn *)

\* Most streams in one turn, and most approval requests at the end of one.
MaxStreams == 3
MaxRequests == 2

\* The AgentThread handle_agent_query was given.
Thread == "thread_1"

\* What the remote runtime may raise.
RuntimeErrors == {"runtime unavailable", "run failed"}

\* A run_stream call as the runtime receives it, with what it gave back:
\* the thread, the chunks, and how many approval requests its result holds.
StreamResult(thread, cs, n) == [thread |-> thread, chunks |-> cs, requests |-> n]

\* line 321: len(result.user_input_requests) > 0 (mutant: the loop gives up
\* after MaxStreams resubmissions)
NeedsApproval_capped == pending > 0 /\ Len(approvals) < MaxStreams
NeedsApproval == pending > 0

\* line 329: user_input_needed.create_response(True) (mutant: the request is
\* denied)
ApprovalDecision_deny == FALSE
ApprovalDecision == TRUE

\* lines 323-331: new_input, one message per pending request
NewInput == [i \in 1..pending |-> ApprovalDecision]

\* The chunk sequences a stream of the turn may carry. The last has an output
\* whose file_id attribute is None (lines 195-196 append whatever it holds).
StreamChunks ==
    { <<Chunk(TRUE, FALSE, <<>>, 1, 2)>>,
      <<Chunk(TRUE, FALSE, <<>>, 3, 2)>>,
      <<Chunk(TRUE, FALSE, <<>>, 7, 2)>>,
      <<Chunk(TRUE, TRUE, <<ImageOutput("img1")>>, 15, 2)>>,
      <<Chunk(TRUE, TRUE, <<ImageOutput("img2"), FileOutput("file_1")>>, 15, 2)>>,
      <<Chunk(TRUE, TRUE, <<FileOutput(Absent)>>, 15, 2)>> }

\* The chunks the runtime of this behaviour streams: any of StreamChunks, or
\* always the same three where it is the approval requests that are varied.
RuntimeChunks ==
    IF runtime = "any"
    THEN StreamChunks
    ELSE { <<Chunk(TRUE, FALSE, <<>>, 1, 2),
             Chunk(TRUE, FALSE, <<>>, 7, 2),
             Chunk(TRUE, TRUE, <<ImageOutput("img1")>>, 15, 2)>> }

\* lines 316-318 and 332-334: the stream of the run_stream call ends and its
\* result replaces `result`. The runtime decides the chunks and the approval
\* requests: a runtime "always_asks" asks in every stream, any other asks
\* for none in the last stream the bound allows. `streamed` records the first
\* MaxStreams streams.
StreamEnd ==
    /\ xpc = "stream"
    /\ \E cs \in RuntimeChunks, n \in 0..MaxRequests :
         /\ (runtime # "always_asks" /\ Len(streamed) + 1 >= MaxStreams)
              => n = 0
         /\ runtime = "always_asks" => n > 0
         /\ chunks' = cs
         /\ pending' = n
         /\ streamed' = IF Len(streamed) < MaxStreams
                         THEN Append(streamed, StreamResult(Thread, cs, n))
                         ELSE streamed
    /\ xpc' = "streamed"
    /\ UNCHANGED <<final_text, history, idx, arrivals, rawDetails, outputs,
                   result, apiResponse>>
    /\ UNCHANGED <<approvals, lookup, looked, exc, previous>>
    /\ UNCHANGED walkVars
    /\ UNCHANGED <<bridgeVars, queryVars, appVars>>

\* lines 316-318 and 332-334: the run_stream call raises
StreamFail ==
    /\ xpc = "stream"
    /\ runtime # "always_asks"
    /\ \E e \in RuntimeErrors : exc' = e
    /\ xpc' = "raised"
    /\ UNCHANGED <<chunks, final_text, history, idx, arrivals, rawDetails,
                   outputs, result, apiResponse>>
    /\ UNCHANGED <<streamed, pending, approvals, lookup, looked, previous>>
    /\ UNCHANGED walkVars
    /\ UNCHANGED <<bridgeVars, queryVars, appVars>>

\* lines 321-334: every pending request is answered and the answers are
\* submitted as a new stream on the thread. `approvals` records the first
\* MaxStreams resubmissions.
Approve ==
    /\ xpc = "streamed"
    /\ NeedsApproval
    /\ approvals' = IF Len(approvals) < MaxStreams
                     THEN Append(approvals,
                                 [thread |-> Thread, input |-> NewInput])
                     ELSE approvals
    /\ xpc' = "stream"
    /\ UNCHANGED <<chunks, final_text, history, idx, arrivals, rawDetails,
                   outputs, result, apiResponse>>
    /\ UNCHANGED <<streamed, pending, lookup, looked, exc, previous>>
    /\ UNCHANGED walkVars
    /\ UNCHANGED <<bridgeVars, queryVars, appVars>>

\* lines 321 and 337: the loop is left and extract_code_interpreter_outputs
\* is called on `result`
ExtractCall ==
    /\ xpc = "streamed"
    /\ ~NeedsApproval
    /\ xpc' = "extract"
    /\ UNCHANGED <<chunks, final_text, history, idx, arrivals, rawDetails,
                   outputs, result, apiResponse>>
    /\ UNCHANGED turnVars
    /\ UNCHANGED walkVars
    /\ UNCHANGED <<bridgeVars, queryVars, appVars>>

\* How the history lookup of lines 344-401 goes. "ok": every message is
\* listed. "no_thread_id": the thread has no service_thread_id (line 346).
\* "no_client": chat_client has no project_client (line 354).
\* "none": no lookup was made yet. "raise_thread_id", "raise_list": reading the thread id or calling
\* messages.list raises. "raise_iter": the iteration raises when it asks for
\* message number `at`.
Lookup(mode, at) == [mode |-> mode, at |-> at]

\* The result that extraction has run on is extracted once more, the first
\* outcome kept aside.
NotRun == [pc |-> "none", outputs |-> NoOutputs]
ExtractAgain ==
    /\ xpc \in {"extracted", "raised"}
    /\ previous = NotRun
    /\ previous' = [pc |-> xpc, outputs |-> outputs]
    /\ xpc' = "extract"
    /\ arrivals' = <<>>
    /\ wpc' = "idle"
    /\ UNCHANGED <<heap, raw_obj, stack, collected, visited, emitted>>
    /\ UNCHANGED <<chunks, final_text, history, idx, rawDetails, outputs,
                   result, apiResponse>>
    /\ UNCHANGED <<streamed, pending, approvals, lookup, looked, exc>>
    /\ UNCHANGED <<bridgeVars, queryVars, appVars>>

TurnIdle ==
    /\ streamed = <<>>
    /\ pending = 0
    /\ approvals = <<>>
    /\ lookup = Lookup("none", 0)
    /\ looked = FALSE
    /\ exc = ""
    /\ previous = NotRun

----------------------------------------------------------------------------
(* handle_agent_query from line 337 on, and chat *)

\* A message of the thread: the file_ids of its attachments and its
\* file_ids list.
Message(attachments, file_ids) ==
    [attachments |-> attachments, file_ids |-> file_ids]

\* lines 379-383: file_ids not yet found are appended
RECURSIVE AppendNew(_, _)
AppendNew(found, ids) ==
    IF ids = <<>> THEN found
    ELSE AppendNew(IF Head(ids) \in Range(found) THEN found
                   ELSE Append(found, Head(ids)),
                   Tail(ids))

\* lines 364-386: found_file_ids over the messages in listing order
RECURSIVE FoundFileIds(_, _)
FoundFileIds(messages, found) ==
    IF messages = <<>> THEN found
    ELSE FoundFileIds(Tail(messages),
            AppendNew(found \o Head(messages).attachments,
                      Head(messages).file_ids))

\* lines 389-399: every entry without a file_id takes the next found one
\* (mutant: the id taken is not removed from found_file_ids)
Backfill_noPop(files, found) ==
    [i \in 1..Len(files) |->
        IF files[i].file_id = Absent /\ found # <<>>
        THEN [files[i] EXCEPT !.file_id = Head(found)]
        ELSE files[i]]
RECURSIVE Backfill(_, _)
Backfill(files, found) ==
    IF files = <<>> THEN <<>>
    ELSE IF Head(files).file_id = Absent /\ found # <<>>
         THEN <<[Head(files) EXCEPT !.file_id = Head(found)]>>
              \o Backfill(Tail(files), Tail(found))
         ELSE <<Head(files)>> \o Backfill(Tail(files), found)

\* The ways the history lookup may go over the messages.
Lookups(messages) ==
    { Lookup(m, 0) : m \in {"ok", "no_thread_id", "no_client",
                            "raise_thread_id", "raise_list"} }
    \cup { Lookup("raise_iter", k) : k \in 1..(Len(messages) + 1) }

\* an exception is raised inside the try of line 344
LookupRaises(l) == l.mode \in {"raise_thread_id", "raise_list", "raise_iter"}
\* line 361 is reached
LookupLists(l) == l.mode \in {"ok", "raise_list", "raise_iter"}

\* lines 364-386: found_file_ids as far as the iteration got
LookupFound(l) ==
    IF l.mode = "ok" THEN FoundFileIds(history, <<>>)
    ELSE IF l.mode = "raise_iter"
         THEN FoundFileIds(SubSeq(history, 1, l.at - 1), <<>>)
    ELSE <<>>

\* lines 344-406: outputs['files'] after the lookup. The mapping of lines
\* 389-399 runs only when the iteration has ended; an exception goes to the
\* handler of line 403, which leaves the files as they are (mutant: the ids
\* found before the exception are mapped all the same).
FilesAfterLookup_partial(files, l) == Backfill(files, LookupFound(l))
FilesAfterLookup(files, l) ==
    IF l.mode = "ok" THEN Backfill(files, LookupFound(l)) ELSE files

\* lines 414-423: the sandbox references are removed from the text
ResponseText(text) == SelectSeq(text, LAMBDA t : t.kind # "sandbox")

NoResult == [response |-> <<>>, outputs |-> NoOutputs]
NoResponse ==
    [status |-> 0, error |-> "", response |-> <<>>, images |-> <<>>,
     files |-> <<>>, tools |-> <<>>, tool_details |-> <<>>]

\* line 772: jsonify({"error": str(e)}), 500 (mutant: the exception is
\* swallowed and an empty turn is sent)
ErrorPayload_swallowed(e) == [NoResponse EXCEPT !.status = 200]
ErrorPayload(e) == [NoResponse EXCEPT !.status = 500, !.error = e]

\* lines 337-428: the file_ids of the thread's messages are mapped onto the
\* files, and {response, outputs} is returned
HandleAgentQueryReturn ==
    /\ xpc = "extracted"
    /\ \E l \in Lookups(history) :
         /\ lookup' = l
         /\ outputs' = [outputs EXCEPT !.files = FilesAfterLookup(@, l)]
         /\ looked' = LookupLists(l)
    /\ result' = [response |-> ResponseText(final_text), outputs |-> outputs']
    /\ xpc' = "handled"
    /\ UNCHANGED <<chunks, final_text, history, idx, arrivals, rawDetails,
                   apiResponse>>
    /\ UNCHANGED <<streamed, pending, approvals, exc, previous>>
    /\ UNCHANGED walkVars
    /\ UNCHANGED <<bridgeVars, queryVars, appVars>>

\* lines 679-769: the JSON body of a turn that returned. An image is in the
\* body when its download gave content (line 688).
ChatRespond ==
    /\ xpc = "handled"
    /\ \E downloaded \in BOOLEAN :
         apiResponse' =
            [status |-> 200,
             error |-> "",
             response |-> result.response,
             images |-> IF downloaded THEN result.outputs.images ELSE <<>>,
             files |-> result.outputs.files,
             tools |-> result.outputs.tools,
             tool_details |-> result.outputs.tool_details]
    /\ xpc' = "responded"
    /\ UNCHANGED <<chunks, final_text, history, idx, arrivals, rawDetails,
                   outputs, result>>
    /\ UNCHANGED walkVars
    /\ UNCHANGED others

\* lines 771-772: the exception of the turn becomes an error payload
ChatError ==
    /\ xpc = "raised"
    /\ apiResponse' = ErrorPayload(exc)
    /\ xpc' = "responded"
    /\ UNCHANGED <<chunks, final_text, history, idx, arrivals, rawDetails,
                   outputs, result>>
    /\ UNCHANGED walkVars
    /\ UNCHANGED others

ReconIdle ==
    /\ chunks = <<>>
    /\ final_text = <<>>
    /\ history = <<>>
    /\ idx = 0
    /\ xpc = "idle"
    /\ arrivals = <<>>
    /\ rawDetails = <<>>
    /\ outputs = NoOutputs
    /\ result = NoResult
    /\ apiResponse = NoResponse

----------------------------------------------------------------------------
(* _start_agent_loop and run_in_agent_loop *)

\* Caller threads, each making one call of run_in_agent_loop.
NumCallers == 2
Callers == 1..NumCallers

\* The coroutine a caller submits is named by the caller: its payload.
Payload(c) == c
\* Whether the coroutine with payload p raises, what it returns and what it
\* raises: odd payloads raise.
Raises(p) == p % 2 = 1
ResultOf(p) == [kind |-> "result", of |-> p]
ErrorOf(p) == [kind |-> "exception", of |-> p]
Pending == [kind |-> "pending", of |-> 0]
TimeoutError == [kind |-> "timeout", of |-> 0]
NoOutcome == [kind |-> "none", of |-> 0]

\* line 57: asyncio.new_event_loop()
NewLoop == [running |-> FALSE, queue |-> <<>>]

\* line 54: agent_loop and agent_loop.is_running()
LoopIsRunning == agent_loop # 0 /\ loops[agent_loop].running

\* line 54
StartCheck(c) ==
    /\ cpc[c] = "check"
    /\ cpc' = [cpc EXCEPT ![c] = IF LoopIsRunning THEN "return" ELSE "create"]
    /\ UNCHANGED <<agent_loop, loops, timeout, loop_ready,
                   loop, future, outcome, tpc, tasks, futures>>
    /\ UNCHANGED <<walkVars, reconVars, turnVars, queryVars, appVars>>

\* lines 57-58: the global is assigned a new loop; loop_ready is a new Event
StartCreate(c) ==
    /\ cpc[c] = "create"
    /\ loops' = Append(loops, NewLoop)
    /\ agent_loop' = Len(loops) + 1
    /\ loop_ready' = [loop_ready EXCEPT ![c] = FALSE]
    /\ cpc' = [cpc EXCEPT ![c] = "spawn"]
    /\ UNCHANGED <<timeout, loop, future, outcome, tpc,
                   tasks, futures>>
    /\ UNCHANGED <<walkVars, reconVars, turnVars, queryVars, appVars>>

\* lines 65-66: the thread running _run_loop is started (the global
\* agent_loop_thread it is assigned to is never read)
StartSpawn(c) ==
    /\ cpc[c] = "spawn"
    /\ tpc' = [tpc EXCEPT ![c] = "started"]
    /\ cpc' = [cpc EXCEPT ![c] = "wait"]
    /\ UNCHANGED <<agent_loop, loops, timeout, loop_ready, loop, future,
                   outcome, tasks, futures>>
    /\ UNCHANGED <<walkVars, reconVars, turnVars, queryVars, appVars>>

\* line 67: loop_ready.wait()
StartWait(c) ==
    /\ cpc[c] = "wait"
    /\ loop_ready[c]
    /\ cpc' = [cpc EXCEPT ![c] = "return"]
    /\ UNCHANGED <<agent_loop, loops, timeout, loop_ready,
                   loop, future, outcome, tpc, tasks, futures>>
    /\ UNCHANGED <<walkVars, reconVars, turnVars, queryVars, appVars>>

\* lines 55 and 68, line 73: return agent_loop reads the global
StartReturn(c) ==
    /\ cpc[c] = "return"
    /\ loop' = [loop EXCEPT ![c] = agent_loop]
    /\ cpc' = [cpc EXCEPT ![c] = "submit"]
    /\ UNCHANGED <<agent_loop, loops, timeout, loop_ready,
                   future, outcome, tpc, tasks, futures>>
    /\ UNCHANGED <<walkVars, reconVars, turnVars, queryVars, appVars>>

\* lines 61-62 of the thread started by c: set_event_loop(agent_loop) has no
\* effect outside the thread; loop_ready.set()
RunLoopReady(c) ==
    /\ tpc[c] = "started"
    /\ loop_ready' = [loop_ready EXCEPT ![c] = TRUE]
    /\ tpc' = [tpc EXCEPT ![c] = "ready"]
    /\ UNCHANGED <<agent_loop, loops, cpc, timeout, loop,
                   future, outcome, tasks, futures>>
    /\ UNCHANGED <<walkVars, reconVars, turnVars, queryVars, appVars>>

\* line 63: agent_loop.run_forever() on the loop the global names now; it
\* raises RuntimeError when that loop is already running
RunLoopForever(c) ==
    /\ tpc[c] = "ready"
    /\ IF loops[agent_loop].running
       THEN /\ tpc' = [tpc EXCEPT ![c] = "raised"]
            /\ UNCHANGED loops
       ELSE /\ tpc' = [tpc EXCEPT ![c] = "running"]
            /\ loops' = [loops EXCEPT ![agent_loop].running = TRUE]
    /\ UNCHANGED <<agent_loop, cpc, timeout, loop_ready,
                   loop, future, outcome, tasks, futures>>
    /\ UNCHANGED <<walkVars, reconVars, turnVars, queryVars, appVars>>

\* line 74: run_coroutine_threadsafe(coro, loop) queues the coroutine on the
\* loop and returns a new concurrent future
Submit(c) ==
    /\ cpc[c] = "submit"
    /\ LET f == Len(futures) + 1 IN
         /\ futures' = Append(futures, Pending)
         /\ tasks' = Append(tasks, [payload |-> Payload(c), loop |-> loop[c],
                                    state |-> "queued"])
         /\ loops' = [loops EXCEPT ![loop[c]].queue = Append(@, f)]
         /\ future' = [future EXCEPT ![c] = f]
    /\ cpc' = [cpc EXCEPT ![c] = "result"]
    /\ UNCHANGED <<agent_loop, timeout, loop_ready, loop,
                   outcome, tpc>>
    /\ UNCHANGED <<walkVars, reconVars, turnVars, queryVars, appVars>>

\* line 75: the future the caller waits on (mutant: the future created last
\* by any caller)
AwaitedFuture_latest(c) == Len(futures)
AwaitedFuture(c) == future[c]

\* line 75: future.result(timeout) returns the result or raises the
\* exception of the future once it is done
Result(c) ==
    /\ cpc[c] = "result"
    /\ futures[AwaitedFuture(c)].kind # "pending"
    /\ outcome' = [outcome EXCEPT ![c] = futures[AwaitedFuture(c)]]
    /\ cpc' = [cpc EXCEPT ![c] = "done"]
    /\ UNCHANGED <<agent_loop, loops, timeout, loop_ready,
                   loop, future, tpc, tasks, futures>>
    /\ UNCHANGED <<walkVars, reconVars, turnVars, queryVars, appVars>>

\* line 75: what the expiry of the timeout does to the work items (mutant:
\* the awaited work item is cancelled)
TasksAfterTimeout_cancelled(c) ==
    [tasks EXCEPT ![future[c]].state = "cancelled"]
TasksAfterTimeout(c) == tasks

\* line 75: future.result(timeout) raises TimeoutError while the future is
\* pending
ResultTimeout(c) ==
    /\ cpc[c] = "result"
    /\ timeout[c]
    /\ futures[AwaitedFuture(c)].kind = "pending"
    /\ outcome' = [outcome EXCEPT ![c] = TimeoutError]
    /\ tasks' = TasksAfterTimeout(c)
    /\ cpc' = [cpc EXCEPT ![c] = "done"]
    /\ UNCHANGED <<agent_loop, loops, timeout, loop_ready,
                   loop, future, tpc, futures>>
    /\ UNCHANGED <<walkVars, reconVars, turnVars, queryVars, appVars>>

\* The running loop l takes the next queued coroutine and starts it.
LoopStart(l) ==
    /\ loops[l].running
    /\ loops[l].queue # <<>>
    /\ LET f == Head(loops[l].queue) IN
         /\ loops' = [loops EXCEPT ![l].queue = Tail(@)]
         /\ tasks' = [tasks EXCEPT ![f].state =
                        IF @ = "queued" THEN "running" ELSE @]
    /\ UNCHANGED <<agent_loop, cpc, timeout, loop_ready,
                   loop, future, outcome, tpc, futures>>
    /\ UNCHANGED <<walkVars, reconVars, turnVars, queryVars, appVars>>

\* The coroutine of future f, running on its loop, returns or raises; its
\* future is given the result or the exception.
LoopFinish(f) ==
    /\ tasks[f].state = "running"
    /\ loops[tasks[f].loop].running
    /\ futures' = [futures EXCEPT ![f] =
                     IF Raises(tasks[f].payload)
                     THEN ErrorOf(tasks[f].payload)
                     ELSE ResultOf(tasks[f].payload)]
    /\ tasks' = [tasks EXCEPT ![f].state = "done"]
    /\ UNCHANGED <<agent_loop, loops, cpc, timeout,
                   loop_ready, loop, future, outcome, tpc>>
    /\ UNCHANGED <<walkVars, reconVars, turnVars, queryVars, appVars>>

BridgeIdle ==
    /\ agent_loop = 0
    /\ loops = <<>>
    /\ cpc = <<>>
    /\ timeout = <<>>
    /\ loop_ready = <<>>
    /\ loop = <<>>
    /\ future = <<>>
    /\ outcome = <<>>
    /\ tpc = <<>>
    /\ tasks = <<>>
    /\ futures = <<>>

----------------------------------------------------------------------------
(* query_data of azure_postgresql_mcp_sse.py *)

\* Most calls of query_data in one run.
MaxQueries == 3

\* The statements s, by what the server does with them: a SELECT changes
\* nothing and returns rows; INSERT ... RETURNING adds a row and returns
\* rows; INSERT adds a row and returns no result set; an invalid statement
\* makes cur.execute raise.
Statements == {"select", "insert_returning", "insert", "invalid"}
Modifies(s) == s \in {"insert_returning", "insert"}
ReturnsRows(s) == s \in {"select", "insert_returning"}

\* What query_data returns: the JSON text of line 170 (its rows), or "".
QueryRows(n) == [ok |-> TRUE, rows |-> n]
QueryEmpty == [ok |-> FALSE, rows |-> 0]

\* line 156: query_data(dbname, s) is called
QueryCall ==
    /\ qpc = "idle"
    /\ queries < MaxQueries
    /\ \E s \in Statements : stmt' = s
    /\ queries' = queries + 1
    /\ qpc' = "connect"
    /\ UNCHANGED <<db, tx, fetched, qresult>>
    /\ UNCHANGED <<walkVars, reconVars, bridgeVars, turnVars, appVars>>

\* lines 163-166: psycopg.connect opens a connection (autocommit off): the
\* statements of the block run in one transaction
QueryConnect ==
    /\ qpc = "connect"
    /\ tx' = db
    /\ fetched' = FALSE
    /\ qpc' = "execute"
    /\ UNCHANGED <<db, stmt, qresult, queries>>
    /\ UNCHANGED <<walkVars, reconVars, bridgeVars, turnVars, appVars>>

\* lines 163 and 176-178: psycopg.connect raises
QueryConnectFail ==
    /\ qpc = "connect"
    /\ qresult' = QueryEmpty
    /\ qpc' = "idle"
    /\ UNCHANGED <<db, tx, stmt, fetched, queries>>
    /\ UNCHANGED <<walkVars, reconVars, bridgeVars, turnVars, appVars>>

\* line 167: cur.execute(s)
QueryExecute ==
    /\ qpc = "execute"
    /\ IF stmt = "invalid"
       THEN qpc' = "rollback" /\ UNCHANGED tx
       ELSE /\ qpc' = "fetch"
            /\ tx' = IF Modifies(stmt) THEN tx + 1 ELSE tx
    /\ UNCHANGED <<db, stmt, fetched, qresult, queries>>
    /\ UNCHANGED <<walkVars, reconVars, bridgeVars, turnVars, appVars>>

\* lines 168-169: cur.fetchall() raises ProgrammingError when the statement
\* produced no result set
QueryFetch ==
    /\ qpc = "fetch"
    /\ IF ReturnsRows(stmt)
       THEN qpc' = "exit" /\ fetched' = TRUE
       ELSE qpc' = "rollback" /\ UNCHANGED fetched
    /\ UNCHANGED <<db, tx, stmt, qresult, queries>>
    /\ UNCHANGED <<walkVars, reconVars, bridgeVars, turnVars, appVars>>

\* What leaving the block of line 163 without an exception does to the
\* database: the connection commits its transaction
AfterBlock == tx

\* lines 163 and 170-175: the return leaves the with block of the
\* connection without an exception
QueryReturn ==
    /\ qpc = "exit"
    /\ db' = AfterBlock
    /\ qresult' = QueryRows(tx)
    /\ qpc' = "idle"
    /\ UNCHANGED <<tx, stmt, fetched, queries>>
    /\ UNCHANGED <<walkVars, reconVars, bridgeVars, turnVars, appVars>>

\* lines 163 and 176-178: an exception leaves the with block, the
\* connection rolls its transaction back, and "" is returned
QueryRollback ==
    /\ qpc = "rollback"
    /\ tx' = db
    /\ qresult' = QueryEmpty
    /\ qpc' = "idle"
    /\ UNCHANGED <<db, stmt, fetched, queries>>
    /\ UNCHANGED <<walkVars, reconVars, bridgeVars, turnVars, appVars>>

QueryIdle ==
    /\ db = 0
    /\ tx = 0
    /\ qpc = "idle"
    /\ stmt = "select"
    /\ fetched = FALSE
    /\ qresult = QueryEmpty
    /\ queries = 0

----------------------------------------------------------------------------
(* chat, initialize_agent and clear_session: the requests of one session *)

\* Requests of one session id, each served by its own thread of the server.
NumRequests == 2
Requests == 1..NumRequests

NoCreated == [clients |-> 0, agents |-> 0, threads |-> 0]

\* No thread: the session has no key in threads, or the local is unset.
NoThread == [id |-> 0, agent |-> 0]

\* agent.get_new_thread(): a new thread of the agent the global holds now
NewThread == [id |-> created.threads + 1, agent |-> agent]

\* lines 669-670 and 832-833: the handler reads the two globals and, when
\* the agent is not there, submits initialize_agent and waits for it
AgentCheck(r) ==
    /\ rpc[r] = "arrived"
    /\ rpc' = [rpc EXCEPT ![r] =
                 IF ~agent_initialized \/ agent = 0 THEN "init"
                 ELSE IF rkind[r] = "chat" THEN "session" ELSE "clear"]
    /\ UNCHANGED <<runtime, agent_initialized, agent, chat_client, threads,
                   rkind, rthread, created>>
    /\ UNCHANGED <<walkVars, reconVars, bridgeVars, turnVars, queryVars>>

\* lines 523-528: the coroutine tests the flag; when it is not set it
\* assigns a new client to the global and awaits its __aenter__
InitializeBegin(r) ==
    /\ rpc[r] = "init"
    /\ IF agent_initialized
       THEN /\ rpc' = [rpc EXCEPT ![r] =
                         IF rkind[r] = "chat" THEN "session" ELSE "clear"]
            /\ UNCHANGED <<chat_client, created>>
       ELSE /\ chat_client' = created.clients + 1
            /\ created' = [created EXCEPT !.clients = @ + 1]
            /\ rpc' = [rpc EXCEPT ![r] = "entering"]
    /\ UNCHANGED <<runtime, agent_initialized, agent, threads, rkind, rthread>>
    /\ UNCHANGED <<walkVars, reconVars, bridgeVars, turnVars, queryVars>>

\* lines 528-531: __aenter__ is over; setup_azure_ai_observability is awaited
InitializeEntered(r) ==
    /\ rpc[r] = "entering"
    /\ rpc' = [rpc EXCEPT ![r] = "observing"]
    /\ UNCHANGED <<runtime, agent_initialized, agent, chat_client, threads,
                   rkind, rthread, created>>
    /\ UNCHANGED <<walkVars, reconVars, bridgeVars, turnVars, queryVars>>

\* lines 533-649: the client the global holds now creates the agent, which
\* is assigned to the global; the flag is set and the coroutine returns
InitializeCreate(r) ==
    /\ rpc[r] = "observing"
    /\ agent' = created.agents + 1
    /\ created' = [created EXCEPT !.agents = @ + 1]
    /\ agent_initialized' = TRUE
    /\ rpc' = [rpc EXCEPT ![r] = IF rkind[r] = "chat" THEN "session" ELSE "clear"]
    /\ UNCHANGED <<runtime, chat_client, threads, rkind, rthread>>
    /\ UNCHANGED <<walkVars, reconVars, bridgeVars, turnVars, queryVars>>

\* line 673: session_id not in threads
SessionCheck(r) ==
    /\ rpc[r] = "session"
    /\ rpc' = [rpc EXCEPT ![r] = IF threads = NoThread THEN "creating" ELSE "reading"]
    /\ UNCHANGED <<runtime, agent_initialized, agent, chat_client, threads,
                   rkind, rthread, created>>
    /\ UNCHANGED <<walkVars, reconVars, bridgeVars, turnVars, queryVars>>

\* line 674: threads[session_id] = agent.get_new_thread()
ThreadCreate(r) ==
    /\ rpc[r] = "creating"
    /\ threads' = NewThread
    /\ created' = [created EXCEPT !.threads = @ + 1]
    /\ rpc' = [rpc EXCEPT ![r] = "reading"]
    /\ UNCHANGED <<runtime, agent_initialized, agent, chat_client, rkind,
                   rthread>>
    /\ UNCHANGED <<walkVars, reconVars, bridgeVars, turnVars, queryVars>>

\* line 676: thread = threads[session_id]; a KeyError goes to the handler of
\* line 771
ThreadRead(r) ==
    /\ rpc[r] = "reading"
    /\ IF threads = NoThread
       THEN rpc' = [rpc EXCEPT ![r] = "failed"] /\ UNCHANGED rthread
       ELSE /\ rthread' = [rthread EXCEPT ![r] = threads]
            /\ rpc' = [rpc EXCEPT ![r] = "submit"]
    /\ UNCHANGED <<runtime, agent_initialized, agent, chat_client, threads,
                   rkind, created>>
    /\ UNCHANGED <<walkVars, reconVars, bridgeVars, turnVars, queryVars>>

\* lines 679 and 316: handle_agent_query(user_message, thread) is submitted
\* and begins its first stream on the thread
TurnBegin(r) ==
    /\ rpc[r] = "submit"
    /\ rpc' = [rpc EXCEPT ![r] = "in_turn"]
    /\ UNCHANGED <<runtime, agent_initialized, agent, chat_client, threads,
                   rkind, rthread, created>>
    /\ UNCHANGED <<walkVars, reconVars, bridgeVars, turnVars, queryVars>>

\* lines 425-428 and 679: handle_agent_query returns or raises
TurnFinish(r) ==
    /\ rpc[r] = "in_turn"
    /\ rpc' = [rpc EXCEPT ![r] = "done"]
    /\ UNCHANGED <<runtime, agent_initialized, agent, chat_client, threads,
                   rkind, rthread, created>>
    /\ UNCHANGED <<walkVars, reconVars, bridgeVars, turnVars, queryVars>>

\* line 835: session_id in threads
ClearCheck(r) ==
    /\ rpc[r] = "clear"
    /\ rpc' = [rpc EXCEPT ![r] = IF threads # NoThread THEN "deleting" ELSE "done"]
    /\ UNCHANGED <<runtime, agent_initialized, agent, chat_client, threads,
                   rkind, rthread, created>>
    /\ UNCHANGED <<walkVars, reconVars, bridgeVars, turnVars, queryVars>>

\* line 836: del threads[session_id]; a KeyError leaves the handler
ClearDelete(r) ==
    /\ rpc[r] = "deleting"
    /\ IF threads = NoThread
       THEN rpc' = [rpc EXCEPT ![r] = "failed"] /\ UNCHANGED threads
       ELSE threads' = NoThread /\ rpc' = [rpc EXCEPT ![r] = "replacing"]
    /\ UNCHANGED <<runtime, agent_initialized, agent, chat_client, rkind,
                   rthread, created>>
    /\ UNCHANGED <<walkVars, reconVars, bridgeVars, turnVars, queryVars>>

\* line 837: threads[session_id] = agent.get_new_thread()
ClearReplace(r) ==
    /\ rpc[r] = "replacing"
    /\ threads' = NewThread
    /\ created' = [created EXCEPT !.threads = @ + 1]
    /\ rpc' = [rpc EXCEPT ![r] = "done"]
    /\ UNCHANGED <<runtime, agent_initialized, agent, chat_client, rkind,
                   rthread>>
    /\ UNCHANGED <<walkVars, reconVars, bridgeVars, turnVars, queryVars>>

\* lines 42-47: the globals as the module leaves them
GlobalsIdle ==
    /\ agent_initialized = FALSE
    /\ agent = 0
    /\ chat_client = 0
    /\ threads = NoThread
    /\ rkind = <<>>
    /\ rpc = <<>>
    /\ rthread = <<>>
    /\ created = NoCreated

\* The globals at rest, with a runtime that stops asking for approval within
\* MaxStreams streams.
AppIdle ==
    /\ runtime = "any"
    /\ GlobalsIdle

----------------------------------------------------------------------------
(* The walker on its own: _collect_tool_details(raw_obj) for every graph and
   every object of it as raw_obj *)

InitWalk ==
    /\ heap \in WalkGraphs
    /\ raw_obj \in DOMAIN heap
    /\ stack = <<Frame(raw_obj, 0)>>
    /\ collected = <<>>
    /\ visited = <<>>
    /\ emitted = <<>>
    /\ wpc = "walking"
    /\ ReconIdle
    /\ BridgeIdle
    /\ TurnIdle
    /\ QueryIdle
    /\ AppIdle

NextWalk ==
    \/ WalkStop
    \/ WalkUnwrap
    \/ WalkTyped
    \/ WalkMapping
    \/ WalkSequence
    \/ WalkOpaque
    \/ WalkReturn

----------------------------------------------------------------------------
(* One turn's output extraction: every chunk sequence up to MaxChunks over
   the chunk kinds below *)

\* Longest chunk sequence of ChunkSequences.
MaxChunks == 2

\* The objects the chunks of a turn refer to.
TurnHeap ==
    << NoneObj,                                        \* 1: None
       Blank,                                          \* 2: a ChatResponseUpdate
       Envelope(4),                                    \* 3: a run step model
       ToolDict("A", ArgText("{x:1}"), "s1", "o1"),    \* 4
       Envelope(6),                                    \* 5: a run step model
       ToolDict("A", ArgText("{x:1}"), "s2", "o2"),    \* 6: the call of 4 again
       TypedCall("B", ArgText("{}"), "s1", "o1"),      \* 7
       [DictObj EXCEPT !.step = 9],                    \* 8: a run step as a dict
       [DictObj EXCEPT !.calls = 10],                  \* 9: its step_details
       SeqObj(<<4, 11, 7>>),                           \* 10: its tool_calls
       ToolDict("A", ArgText("{}"), "s1", "o2"),       \* 11
       [ToolDict("B", ArgDict, "s1", "o1") EXCEPT !.rest = <<14>>],  \* 12
       ToolDict("B", ArgNull, "s2", "o1"),             \* 13
       [DictObj EXCEPT !.tag = "mcp", !.name = "srv"], \* 14: a server config
       Envelope(16),                                   \* 15: a code interpreter delta
       DictObj >>                                      \* 16

ChunkKinds ==
    { Chunk(TRUE, FALSE, <<>>, raw, 2) : raw \in {1, 3, 5, 7, 8, 12, 13, 14} }
    \cup { Chunk(TRUE, TRUE, outs, 15, 2) :
             outs \in { <<ImageOutput("img1")>>, <<ImageOutput("img2")>>,
                        <<ImageOutput("img1"), ImageOutput("img2")>>,
                        <<ImageOutput("img1"), ImageOutput("img3")>>,
                        <<EmptyImageOutput, LogOutput, FileOutput("file_1")>> } }
    \cup { Chunk(FALSE, FALSE, <<>>, 1, self) : self \in {3, 8} }
    \cup { Chunk(FALSE, FALSE, <<>>, 7, 3) }

ChunkSequences ==
    UNION { [1..n -> ChunkKinds] : n \in 0..MaxChunks } \cup {NoChunks}

\* The final text of the turn with the messages of its thread.
Scenarios ==
    { [text |-> <<>>, messages |-> <<>>],
      [text |-> <<Word("see"), SandboxRef("report", "pdf")>>,
       messages |-> <<Message(<<"file_9">>, <<>>)>>],
      [text |-> <<SandboxRef("a", "PDF"), SandboxRef("a", "PDF"),
                  SandboxRef("b", "zip")>>,
       messages |-> <<Message(<<>>, <<"file_1", "file_1">>)>>] }

WalkIdle ==
    /\ raw_obj = 0
    /\ stack = <<>>
    /\ collected = <<>>
    /\ visited = <<>>
    /\ emitted = <<>>
    /\ wpc = "idle"

InitRecon ==
    /\ heap = TurnHeap
    /\ WalkIdle
    /\ chunks \in ChunkSequences
    /\ \E sc \in Scenarios : final_text = sc.text /\ history = sc.messages
    /\ idx = 0
    /\ xpc = "extract"
    /\ arrivals = <<>>
    /\ rawDetails = <<>>
    /\ outputs = NoOutputs
    /\ result = NoResult
    /\ apiResponse = NoResponse
    /\ BridgeIdle
    /\ streamed = <<StreamResult(Thread, chunks, 0)>>
    /\ pending = 0
    /\ approvals = <<>>
    /\ lookup = Lookup("none", 0)
    /\ looked = FALSE
    /\ exc = ""
    /\ previous = NotRun
    /\ QueryIdle
    /\ AppIdle

NextRecon ==
    \/ ExtractBegin
    \/ ChunkUpdate
    \/ ChunkOther
    \/ WalkStop
    \/ WalkUnwrap
    \/ WalkTyped
    \/ WalkMapping
    \/ WalkSequence
    \/ WalkOpaque
    \/ ChunkRawWalked
    \/ ChunkWalked
    \/ Reconcile
    \/ HandleAgentQueryReturn
    \/ ChatRespond
    \/ ChatError

----------------------------------------------------------------------------
(* Output extraction run twice on the same result *)

NextRepeat ==
    \/ ExtractBegin
    \/ ChunkUpdate
    \/ ChunkOther
    \/ WalkStop
    \/ WalkUnwrap
    \/ WalkTyped
    \/ WalkMapping
    \/ WalkSequence
    \/ WalkOpaque
    \/ ChunkRawWalked
    \/ ChunkWalked
    \/ Reconcile
    \/ ExtractAgain

----------------------------------------------------------------------------
(* One turn of /api/chat from the first run_stream call on: the runtime ends
   or fails each stream, and the history lookup goes each of its ways *)

\* The final text of the turn with the messages of its thread.
TurnScenarios ==
    { [text |-> <<Word("see"), SandboxRef("report", "pdf")>>,
       messages |-> <<Message(<<"file_9">>, <<>>)>>],
      [text |-> <<SandboxRef("a", "pdf"), SandboxRef("a", "pdf"),
                  SandboxRef("b", "csv")>>,
       messages |-> <<Message(<<"f1">>, <<>>), Message(<<>>, <<"f1", "f2">>)>>],
      [text |-> <<SandboxRef("a", "pdf"), SandboxRef("b", "csv"),
                  SandboxRef("c", "txt")>>,
       messages |-> <<Message(<<"f1">>, <<"f2">>)>>] }

InitTurn ==
    /\ heap = TurnHeap
    /\ WalkIdle
    /\ chunks = <<>>
    /\ \E sc \in TurnScenarios :
         /\ final_text = sc.text
         /\ history = sc.messages
    /\ idx = 0
    /\ xpc = "stream"
    /\ arrivals = <<>>
    /\ rawDetails = <<>>
    /\ outputs = NoOutputs
    /\ result = NoResult
    /\ apiResponse = NoResponse
    /\ streamed = <<>>
    /\ pending = 0
    /\ approvals = <<>>
    /\ lookup = Lookup("none", 0)
    /\ looked = FALSE
    /\ exc = ""
    /\ previous = NotRun
    /\ BridgeIdle
    /\ QueryIdle
    /\ AppIdle

NextTurn ==
    \/ StreamEnd
    \/ StreamFail
    \/ Approve
    \/ ExtractCall
    \/ ExtractBegin
    \/ ChunkUpdate
    \/ WalkStop
    \/ WalkUnwrap
    \/ WalkTyped
    \/ WalkMapping
    \/ WalkOpaque
    \/ ChunkRawWalked
    \/ ChunkWalked
    \/ Reconcile
    \/ HandleAgentQueryReturn
    \/ ChatRespond
    \/ ChatError

----------------------------------------------------------------------------
(* The turns of one thread: each /api/chat request of the session runs its
   turn on the same thread, whose messages pile up *)

\* Most turns on the thread.
MaxTurns == 2

\* A message of the thread, with the turn that recorded it.
TurnMessage(t, attachments, file_ids) ==
    [attachments |-> attachments, file_ids |-> file_ids, turn |-> t]

\* The turn the thread is in: every turn records its messages.
CurrentTurn ==
    CHOOSE t \in 1..MaxTurns :
        /\ \E k \in 1..Len(history) : history[k].turn = t
        /\ \A k \in 1..Len(history) : history[k].turn <= t

\* What turn t may be: its final text and the messages it records, as the
\* listing gives them. The first turn writes report.pdf, recorded as file_9;
\* a later turn names files in its text and records an identifier or none.
ThreadTurns(t) ==
    IF t = 1
    THEN { [text |-> <<Word("see"), SandboxRef("report", "pdf")>>,
            messages |-> <<TurnMessage(1, <<"file_9">>, <<>>),
                           TurnMessage(1, <<>>, <<>>)>>] }
    ELSE { [text |-> <<SandboxRef("chart", "png")>>,
            messages |-> <<TurnMessage(t, <<>>, <<>>),
                           TurnMessage(t, <<>>, <<>>)>>],
           [text |-> <<SandboxRef("chart", "png"), SandboxRef("data", "csv")>>,
            messages |-> <<TurnMessage(t, <<"file_10">>, <<>>),
                           TurnMessage(t, <<>>, <<>>)>>] }

\* lines 658-679: the next request of the session finds its thread in
\* threads (line 676) and submits handle_agent_query on it (line 679). By the
\* time of the lookup the thread holds the messages of this turn too;
\* messages.list (line 355, no order given) yields the newest first.
ChatAgain ==
    /\ xpc = "responded"
    /\ CurrentTurn < MaxTurns
    /\ \E sc \in ThreadTurns(CurrentTurn + 1) :
         /\ final_text' = sc.text
         /\ history' = sc.messages \o history
    /\ xpc' = "stream"
    /\ chunks' = <<>>
    /\ idx' = 0
    /\ arrivals' = <<>>
    /\ rawDetails' = <<>>
    /\ outputs' = NoOutputs
    /\ result' = NoResult
    /\ apiResponse' = NoResponse
    /\ streamed' = <<>>
    /\ pending' = 0
    /\ approvals' = <<>>
    /\ lookup' = Lookup("none", 0)
    /\ looked' = FALSE
    /\ exc' = ""
    /\ UNCHANGED previous
    /\ raw_obj' = 0
    /\ stack' = <<>>
    /\ collected' = <<>>
    /\ visited' = <<>>
    /\ emitted' = <<>>
    /\ wpc' = "idle"
    /\ UNCHANGED heap
    /\ UNCHANGED <<bridgeVars, queryVars, appVars>>

InitThread ==
    /\ heap = TurnHeap
    /\ WalkIdle
    /\ chunks = <<>>
    /\ \E sc \in ThreadTurns(1) :
         /\ final_text = sc.text
         /\ history = sc.messages
    /\ idx = 0
    /\ xpc = "stream"
    /\ arrivals = <<>>
    /\ rawDetails = <<>>
    /\ outputs = NoOutputs
    /\ result = NoResult
    /\ apiResponse = NoResponse
    /\ TurnIdle
    /\ BridgeIdle
    /\ QueryIdle
    /\ AppIdle

NextThread ==
    \/ StreamEnd
    \/ StreamFail
    \/ Approve
    \/ ExtractCall
    \/ ExtractBegin
    \/ ChunkUpdate
    \/ WalkStop
    \/ WalkUnwrap
    \/ WalkTyped
    \/ WalkMapping
    \/ WalkOpaque
    \/ ChunkRawWalked
    \/ ChunkWalked
    \/ Reconcile
    \/ HandleAgentQueryReturn
    \/ ChatRespond
    \/ ChatError
    \/ ChatAgain

----------------------------------------------------------------------------
(* One turn against a runtime that may ask for approval in every stream *)

\* How the remote runtime answers: "ends" stops asking within MaxStreams
\* streams or raises, "always_asks" ends every stream with approval requests.
Runtimes == {"ends", "always_asks"}

InitLoop ==
    /\ heap = TurnHeap
    /\ WalkIdle
    /\ chunks = <<>>
    /\ final_text = <<Word("see"), SandboxRef("report", "pdf")>>
    /\ history = <<Message(<<"file_9">>, <<>>)>>
    /\ idx = 0
    /\ xpc = "stream"
    /\ arrivals = <<>>
    /\ rawDetails = <<>>
    /\ outputs = NoOutputs
    /\ result = NoResult
    /\ apiResponse = NoResponse
    /\ TurnIdle
    /\ BridgeIdle
    /\ QueryIdle
    /\ runtime \in Runtimes
    /\ GlobalsIdle

NextLoop ==
    \/ StreamEnd
    \/ StreamFail
    \/ Approve
    \/ ExtractCall
    \/ ExtractBegin
    \/ ChunkUpdate
    \/ WalkStop
    \/ WalkUnwrap
    \/ WalkTyped
    \/ WalkMapping
    \/ WalkOpaque
    \/ ChunkRawWalked
    \/ ChunkWalked
    \/ Reconcile
    \/ HandleAgentQueryReturn
    \/ ChatRespond
    \/ ChatError

----------------------------------------------------------------------------
(* query_data called up to MaxQueries times on one database *)

InitQuery ==
    /\ heap = <<>>
    /\ WalkIdle
    /\ ReconIdle
    /\ BridgeIdle
    /\ TurnIdle
    /\ QueryIdle
    /\ AppIdle

NextQuery ==
    \/ QueryCall
    \/ QueryConnect
    \/ QueryConnectFail
    \/ QueryExecute
    \/ QueryFetch
    \/ QueryReturn
    \/ QueryRollback

----------------------------------------------------------------------------
(* The bridge: NumCallers threads call run_in_agent_loop at any time, with
   or without a timeout, in a process that has started no loop yet *)

InitBridge ==
    /\ heap = <<>>
    /\ WalkIdle
    /\ ReconIdle
    /\ agent_loop = 0
    /\ loops = <<>>
    /\ cpc = [c \in Callers |-> "check"]
    /\ timeout \in [Callers -> BOOLEAN]
    /\ loop_ready = [c \in Callers |-> FALSE]
    /\ loop = [c \in Callers |-> 0]
    /\ future = [c \in Callers |-> 0]
    /\ outcome = [c \in Callers |-> NoOutcome]
    /\ tpc = [c \in Callers |-> "none"]
    /\ tasks = <<>>
    /\ futures = <<>>
    /\ TurnIdle
    /\ QueryIdle
    /\ AppIdle

NextBridge ==
    \/ \E c \in Callers : StartCheck(c)
    \/ \E c \in Callers : StartCreate(c)
    \/ \E c \in Callers : StartSpawn(c)
    \/ \E c \in Callers : StartWait(c)
    \/ \E c \in Callers : StartReturn(c)
    \/ \E c \in Callers : RunLoopReady(c)
    \/ \E c \in Callers : RunLoopForever(c)
    \/ \E c \in Callers : Submit(c)
    \/ \E c \in Callers : Result(c)
    \/ \E c \in Callers : ResultTimeout(c)
    \/ \E l \in 1..Len(loops) : LoopStart(l)
    \/ \E f \in 1..Len(tasks) : LoopFinish(f)

----------------------------------------------------------------------------
(* The requests of one session: NumRequests requests arrive at any time, in
   a process that was started by line 844 (the agent is initialized) or
   imported by a server (it is not), with or without a thread for the
   session *)

InitSessions ==
    /\ heap = <<>>
    /\ WalkIdle
    /\ ReconIdle
    /\ BridgeIdle
    /\ TurnIdle
    /\ QueryIdle
    /\ runtime = "any"
    /\ \E started \in BOOLEAN, known \in BOOLEAN :
         /\ agent_initialized = started
         /\ agent = IF started THEN 1 ELSE 0
         /\ chat_client = IF started THEN 1 ELSE 0
         /\ threads = IF started /\ known THEN [id |-> 1, agent |-> 1]
                     ELSE NoThread
         /\ created = [clients |-> IF started THEN 1 ELSE 0,
                       agents |-> IF started THEN 1 ELSE 0,
                       threads |-> IF started /\ known THEN 1 ELSE 0]
    /\ rkind \in [Requests -> {"chat", "clear"}]
    /\ rpc = [r \in Requests |-> "arrived"]
    /\ rthread = [r \in Requests |-> NoThread]

NextSessions ==
    \/ \E r \in Requests : AgentCheck(r)
    \/ \E r \in Requests : InitializeBegin(r)
    \/ \E r \in Requests : InitializeEntered(r)
    \/ \E r \in Requests : InitializeCreate(r)
    \/ \E r \in Requests : SessionCheck(r)
    \/ \E r \in Requests : ThreadCreate(r)
    \/ \E r \in Requests : ThreadRead(r)
    \/ \E r \in Requests : TurnBegin(r)
    \/ \E r \in Requests : TurnFinish(r)
    \/ \E r \in Requests : ClearCheck(r)
    \/ \E r \in Requests : ClearDelete(r)
    \/ \E r \in Requests : ClearReplace(r)

vars == <<walkVars, reconVars, bridgeVars, turnVars, queryVars, appVars>>

SpecWalk == InitWalk /\ [][NextWalk]_vars

SpecRecon == InitRecon /\ [][NextRecon]_vars

SpecBridge == InitBridge /\ [][NextBridge]_vars

SpecRepeat == InitRecon /\ [][NextRepeat]_vars

SpecSessions == InitSessions /\ [][NextSessions]_vars

SpecThread == InitThread /\ [][NextThread]_vars

SpecLoop == InitLoop /\ [][NextLoop]_vars

\* The turn with its coroutine scheduled and its runtime answering: the
\* agent loop runs the coroutine whenever it can take a step (line 679), and
\* every stream submitted to the runtime ends or raises.
SpecLoopFair == SpecLoop /\ WF_vars(NextLoop)

SpecTurn == InitTurn /\ [][NextTurn]_vars

SpecQuery == InitQuery /\ [][NextQuery]_vars

\* The bridge with its threads scheduled: a caller thread, a loop thread or a
\* running loop that can take a step is not held back forever.
SpecBridgeFair == SpecBridge /\ WF_vars(NextBridge)

----------------------------------------------------------------------------
(* Claims about output extraction (SpecRecon) *)

\* chat has sent the outputs of the turn.
Sent == xpc = "responded" /\ apiResponse.status = 200
\* handle_agent_query has returned them.
Handled == xpc = "handled" \/ Sent
\* extract_code_interpreter_outputs has returned them.
Extracted == xpc = "extracted" \/ Handled

\* The label list and the detail list correspond index by index.
Aligned(tools, details) ==
    /\ Len(tools) = Len(details)
    /\ \A i \in 1..Len(details) :
         tools[i] = details[i].server \o ":" \o details[i].name

\* C1 (tool/label alignment): in the outputs extraction returns, in the
\* outputs handle_agent_query returns and in the body /api/chat sends, the
\* tool labels and the tool details have equal length and tools[i] is
\* tool_details[i].server ":" tool_details[i].name; the two lists pass
\* through handle_agent_query and chat unchanged.
C1_ToolsAligned ==
    /\ Extracted => Aligned(outputs.tools, outputs.tool_details)
    /\ Handled =>
         /\ Aligned(result.outputs.tools, result.outputs.tool_details)
         /\ result.outputs.tools = outputs.tools
         /\ result.outputs.tool_details = outputs.tool_details
    /\ Sent =>
         /\ Aligned(apiResponse.tools, apiResponse.tool_details)
         /\ apiResponse.tools = outputs.tools
         /\ apiResponse.tool_details = outputs.tool_details

\* A sent body with two different labels, after a turn whose loop collected
\* more records than deduplication kept.
C1_Witness ==
    /\ Sent
    /\ Len(apiResponse.tools) >= 2
    /\ apiResponse.tools[1] # apiResponse.tools[2]
    /\ Len(rawDetails) > Len(apiResponse.tool_details)

SameKey(a, b) == a.name = b.name /\ a.arguments = b.arguments

\* The index in q of the first record with the key of r.
FirstWithKey(q, r) ==
    CHOOSE i \in 1..Len(q) :
        /\ SameKey(q[i], r)
        /\ \A k \in 1..(i - 1) : ~SameKey(q[k], r)

\* C2 (tool dedup): the reconciled tool_details hold exactly one record for
\* every (name, raw arguments) pair among the collected records, that record
\* is the first collected record with the pair, server and output included,
\* and the records stand in the order of those first occurrences.
C2_ToolDedup ==
    Extracted =>
        LET raw == rawDetails
            kept == outputs.tool_details
        IN /\ \A i \in 1..Len(raw) :
                Cardinality({j \in 1..Len(kept) : SameKey(kept[j], raw[i])}) = 1
           /\ \A j \in 1..Len(kept) :
                /\ \E i \in 1..Len(raw) : SameKey(raw[i], kept[j])
                /\ kept[j] = raw[FirstWithKey(raw, kept[j])]
           /\ \A j, k \in 1..Len(kept) :
                j < k => FirstWithKey(raw, kept[j]) < FirstWithKey(raw, kept[k])

\* Extraction returned after collecting one pair twice, with different
\* servers, and another pair after it.
C2_Witness ==
    /\ Extracted
    /\ Len(outputs.tool_details) >= 2
    /\ \E i, k \in 1..Len(rawDetails) :
         /\ i < k
         /\ SameKey(rawDetails[i], rawDetails[k])
         /\ rawDetails[i].server # rawDetails[k].server
         /\ outputs.tool_details[1] = rawDetails[i]

\* The distinct identifiers of q in the order of their first arrival.
RECURSIVE FirstSeenOrder(_)
FirstSeenOrder(q) ==
    IF q = <<>> THEN <<>>
    ELSE LET before == FirstSeenOrder(SubSeq(q, 1, Len(q) - 1))
             x == q[Len(q)]
         IN IF \E i \in 1..(Len(q) - 1) : q[i] = x THEN before
            ELSE before \o <<x>>

\* C3 (image dedup-and-latest): the reconciled images are empty when no
\* identifier arrived, the single identifier when one distinct identifier
\* arrived, and otherwise the one-element list of the last element of the
\* first-seen-order list of distinct identifiers; never more than one.
C3_ImageLatest ==
    Extracted =>
        LET order == FirstSeenOrder(arrivals) IN
        /\ Len(outputs.images) <= 1
        /\ arrivals = <<>> => outputs.images = <<>>
        /\ Len(order) = 1 => outputs.images = <<arrivals[1]>>
        /\ Len(order) > 1 => outputs.images = <<order[Len(order)]>>

\* Extraction returned after img1, img2, img1, img3 arrived in that order.
C3_Witness ==
    /\ Extracted
    /\ arrivals = <<"img1", "img2", "img1", "img3">>
    /\ outputs.images = <<"img3">>

Several == Cardinality(Range(arrivals)) > 1
LastArrival == arrivals[Len(arrivals)]
FirstArrivalOf(x) == CHOOSE i \in 1..Len(arrivals) :
    arrivals[i] = x /\ \A k \in 1..(i - 1) : arrivals[k] # x

C24_ReconciliationTotal ==
    /\ xpc # "raised"
    /\ xpc = "responded" => apiResponse.status = 200

----------------------------------------------------------------------------
(* Claims about a turn (SpecTurn, SpecRecon, SpecRepeat) *)

\* The entries of a files list that have a name: the text scan made them.
Named(files, i) == files[i].file_name # Absent
\* The position of entry i among the entries of files without an identifier.
Rank(files, i) == Cardinality({j \in 1..i : files[j].file_id = Absent})

\* The file entries the chunks cs carry, in order.
RECURSIVE StructuralFiles(_)
StructuralFiles(cs) ==
    IF cs = <<>> \/ cs = NoChunks THEN <<>>
    ELSE (IF Head(cs).update /\ Head(cs).detail
          THEN ChunkFiles(Head(cs).outputs) ELSE <<>>)
         \o StructuralFiles(Tail(cs))

\* The step in which handle_agent_query looks the history up and returns.
LookupStep == xpc = "extracted" /\ xpc' = "handled"

\* C11 (positional backfill): when the history lookup succeeds, the k-th of
\* the references that had no identifier before it, in output order, has the
\* k-th identifier found in the history, the references beyond the found
\* identifiers keep a null identifier, and nothing else of the list changes:
\* no identifier is made up. The text naming only report.pdf with a history
\* holding only file_9, and no structural file, gives the one reference
\* {report.pdf, file_9}.
C11_PositionalBackfill ==
    /\ [][(LookupStep /\ lookup'.mode = "ok") =>
            LET before == outputs.files
                after == result'.outputs.files
                found == FoundFileIds(history, <<>>)
            IN /\ Len(after) = Len(before)
               /\ \A i \in 1..Len(before) :
                    after[i] =
                        IF before[i].file_id # Absent THEN before[i]
                        ELSE [before[i] EXCEPT !.file_id =
                                 IF Rank(before, i) <= Len(found)
                                 THEN found[Rank(before, i)] ELSE Absent]]_vars
    /\ []( ( /\ Handled
             /\ lookup.mode = "ok"
             /\ final_text = <<Word("see"), SandboxRef("report", "pdf")>>
             /\ history = <<Message(<<"file_9">>, <<>>)>>
             /\ StructuralFiles(chunks) = <<>> )
           => result.outputs.files =
                 <<FileInfo("file_9", "report.pdf", "pdf")>> )

\* A turn whose history gave fewer identifiers than there were references:
\* the first two have the two identifiers in order, the third has none.
C11_Witness ==
    /\ Handled
    /\ lookup.mode = "ok"
    /\ Len(FoundFileIds(history, <<>>)) = 2
    /\ \E i, j, k \in 1..Len(result.outputs.files) :
         /\ i < j /\ j < k
         /\ result.outputs.files[i].file_id = FoundFileIds(history, <<>>)[1]
         /\ result.outputs.files[j].file_id = FoundFileIds(history, <<>>)[2]
         /\ Named(result.outputs.files, k)
         /\ result.outputs.files[k].file_id = Absent

\* C12 (backfill failure degrades): when the history lookup raises, while
\* reading the thread id, listing, or iterating the messages,
\* handle_agent_query returns the normal payload {response, outputs}, no
\* exception leaves it, and every reference that had no identifier before
\* the lookup has none in the returned outputs.
C12_LookupFailureDegrades ==
    /\ [][(LookupStep /\ LookupRaises(lookup')) =>
            /\ Len(result'.outputs.files) = Len(outputs.files)
            /\ \A i \in 1..Len(outputs.files) :
                 outputs.files[i].file_id = Absent =>
                    result'.outputs.files[i].file_id = Absent]_vars
    /\ []( (lookup.mode # "none" /\ LookupRaises(lookup)) =>
             /\ Handled
             /\ exc = ""
             /\ result.response = ResponseText(final_text)
             /\ result.outputs = outputs )

\* The iteration raised after identifiers had been found, and the turn
\* returned a reference without an identifier.
C12_Witness ==
    /\ Handled
    /\ lookup.mode = "raise_iter"
    /\ LookupFound(lookup) # <<>>
    /\ \E i \in 1..Len(result.outputs.files) :
         /\ Named(result.outputs.files, i)
         /\ result.outputs.files[i].file_id = Absent

\* Extraction of the turn's result is under way or over.
Reconciling == xpc \in {"extract", "loop", "walk_raw", "walk_chunk",
                        "extracted", "handled"}

\* Every resubmission answers a stream that ended with approval requests:
\* one approval, never a denial, per request, on the thread of the first call.
ApprovalsAnswerStreams ==
    /\ Len(approvals) \in {Len(streamed) - 1, Len(streamed)}
    /\ xpc = "stream" => Len(approvals) = Len(streamed)
    /\ xpc = "streamed" => Len(approvals) = Len(streamed) - 1
    /\ \A k \in 1..Len(approvals) :
         /\ streamed[k].requests > 0
         /\ Len(approvals[k].input) = streamed[k].requests
         /\ \A i \in 1..Len(approvals[k].input) : approvals[k].input[i] = TRUE
         /\ approvals[k].thread = streamed[1].thread
    /\ \A k \in 1..Len(streamed) : streamed[k].thread = streamed[1].thread

\* C13 (approval loop): every stream that ended with approval requests is
\* followed by one resubmission on the thread of the first call, holding one
\* approval (never a denial) per request, as a new stream, and nothing else
\* follows it; and extraction runs only on a latest result without approval
\* requests.
C13_ApprovalLoop ==
    /\ [](ApprovalsAnswerStreams)
    /\ [][(xpc = "streamed" /\ pending > 0) =>
            /\ xpc' = "stream"
            /\ Len(approvals') = Len(approvals) + 1
            /\ Len(approvals'[Len(approvals')].input) = pending]_vars
    /\ [](Reconciling =>
            /\ pending = 0
            /\ Len(approvals) = Len(streamed) - 1
            /\ streamed[Len(streamed)].requests = 0
            /\ chunks = streamed[Len(streamed)].chunks)

\* Extraction has begun after two rounds of approval, one of them answering
\* two requests.
C13_Witness ==
    /\ xpc = "extract"
    /\ Len(approvals) = 2
    /\ \E k \in 1..2 : Len(approvals[k].input) = 2

\* The records both walks give for o: what _walk(o, depth) appends.
RECURSIVE RecordsOf(_, _)
RECURSIVE RecordsOfAll(_, _)
RecordsOf(o, depth) ==
    IF heap[o].kind = "none" \/ DepthExceeded(depth) THEN <<>>
    ELSE IF HasEnvelope(o) THEN RecordsOf(heap[o].data, depth + 1)
    ELSE IF heap[o].kind = "typed" THEN <<TypedRecord(o)>>
    ELSE IF heap[o].kind = "dict"
         THEN (IF IsToolCallMapping(o) THEN <<MappingRecord(o)>> ELSE <<>>)
              \o RecordsOfAll(MappingChildren(o), depth + 1)
    ELSE IF heap[o].kind = "seq" THEN RecordsOfAll(heap[o].items, depth + 1)
    ELSE <<>>
RecordsOfAll(os, depth) ==
    IF os = <<>> THEN <<>>
    ELSE RecordsOf(Head(os), depth) \o RecordsOfAll(Tail(os), depth)

\* The records of the payload walk and of the chunk walk of chunks 1..n.
RECURSIVE BothWalks(_, _)
BothWalks(cs, n) ==
    IF n = 0 THEN <<>>
    ELSE BothWalks(cs, n - 1)
         \o RecordsOf(cs[n].raw, 0) \o RecordsOf(cs[n].self, 0)

\* C14 (both walks on every chunk): whenever the loop stands before chunk
\* idx, the collected tool records are those of the walk of the payload
\* followed by those of the walk of the chunk, for each chunk before idx
\* whatever its kind, in chunk order and with every repetition kept.
C14_BothWalksEveryChunk ==
    (xpc = "loop" /\ chunks # NoChunks) =>
        outputs.tool_details = BothWalks(chunks, idx - 1)

\* No two entries of a files list have the same name.
DistinctNames(files) ==
    \A i, j \in 1..Len(files) :
        (i # j /\ Named(files, i)) => files[i].file_name # files[j].file_name

\* C15 (files deduplicated by name): no two references of the files list
\* returned by extraction, or by handle_agent_query, have the same non-null
\* name; names that differ in case are different names.
C15_DistinctNames ==
    /\ Extracted => DistinctNames(outputs.files)
    /\ Handled => DistinctNames(result.outputs.files)

\* The text names one file twice and another once, a chunk carries a file
\* identifier, and the list returned has one entry for each.
C15_Witness ==
    /\ xpc = "extracted"
    /\ \E i, j \in 1..Len(final_text) :
         /\ i # j
         /\ final_text[i].kind = "sandbox"
         /\ final_text[i] = final_text[j]
    /\ StructuralFiles(chunks) # <<>>
    /\ \E i, j \in 1..Len(outputs.files) :
         Named(outputs.files, i) /\ ~Named(outputs.files, j)

\* C16 (extraction is repeatable): a second extraction of the same result
\* ends as the first did, returning the same images, files, tools and
\* tool_details or raising again; and no step of an extraction changes the
\* chunks, the objects they hold or the final text.
C16_Repeatable ==
    /\ [](( previous # NotRun /\ xpc \in {"extracted", "raised"} ) =>
            previous = [pc |-> xpc, outputs |-> outputs])
    /\ [][chunks' = chunks /\ heap' = heap /\ final_text' = final_text]_vars

\* Two extractions of a result that holds tool calls, an image and a file
\* have both returned.
C16_Witness ==
    /\ previous # NotRun
    /\ xpc = "extracted"
    /\ Len(outputs.tool_details) > 1
    /\ outputs.images # <<>>
    /\ outputs.files # <<>>

\* C17 (runtime failure is terminal): once a run_stream call has raised, the
\* turn runs no extraction and no history lookup and returns no result; the
\* request answers with status 500 and a payload whose error is the message
\* of that exception, without response or outputs.
C17_RuntimeFailureTerminal ==
    exc \in RuntimeErrors =>
        /\ xpc \in {"raised", "responded"}
        /\ outputs = NoOutputs
        /\ idx = 0
        /\ rawDetails = <<>>
        /\ lookup.mode = "none"
        /\ ~looked
        /\ result = NoResult
        /\ xpc = "responded" =>
              apiResponse = [NoResponse EXCEPT !.status = 500, !.error = exc]

\* The stream of an approval resubmission raised and the request has
\* answered with the error.
C17_Witness ==
    /\ xpc = "responded"
    /\ exc \in RuntimeErrors
    /\ Len(approvals) = 1
    /\ apiResponse.error = exc

\* C18 (query_data is read-only): no step of query_data, whatever the
\* statement, changes the committed state of the database.
C18_ReadOnly == [][db' = db]_vars

\* The tool records and the image identifiers of every stream of the turn.
RECURSIVE TurnRecords(_)
TurnRecords(n) ==
    IF n = 0 THEN <<>>
    ELSE TurnRecords(n - 1)
         \o BothWalks(streamed[n].chunks, Len(streamed[n].chunks))
RECURSIVE ChunksImages(_)
ChunksImages(cs) ==
    IF cs = <<>> THEN <<>>
    ELSE (IF Head(cs).update /\ Head(cs).detail
          THEN ChunkImages(Head(cs).outputs) ELSE <<>>)
         \o ChunksImages(Tail(cs))
RECURSIVE TurnImages(_)
TurnImages(n) ==
    IF n = 0 THEN <<>>
    ELSE TurnImages(n - 1) \o ChunksImages(streamed[n].chunks)

\* C19 (outputs cover the whole turn): every tool call carried by any
\* stream of the turn, the streams before a resubmission included, has a
\* record with its name and arguments in the returned tool_details, and the
\* returned image is the latest of the images of all the streams.
C19_CoversAllStreams ==
    Handled =>
        /\ \A i \in 1..Len(TurnRecords(Len(streamed))) :
             \E j \in 1..Len(result.outputs.tool_details) :
                SameKey(result.outputs.tool_details[j],
                        TurnRecords(Len(streamed))[i])
        /\ result.outputs.images =
              KeptImages(UniqueImages(TurnImages(Len(streamed))))

\* The first entry of files with the name of entry i that has an identifier,
\* or else the first with that name.
Merged(files, i) ==
    LET same == {j \in 1..Len(files) : files[j].file_name = files[i].file_name}
        resolved == {j \in same : files[j].file_id # Absent}
        Least(S) == CHOOSE j \in S : \A k \in S : j <= k
    IN IF resolved # {} THEN files[Least(resolved)] ELSE files[Least(same)]

\* Entries merged by name, a resolved identifier preferred, in first-seen
\* order; entries without a name are left as they are.
MergeByName(files) ==
    LET keep == {i \in 1..Len(files) :
                    ~Named(files, i)
                    \/ \A j \in 1..(i - 1) : files[j].file_name # files[i].file_name}
        Pick(i) == IF Named(files, i) THEN Merged(files, i) ELSE files[i]
        RECURSIVE From(_)
        From(i) == IF i > Len(files) THEN <<>>
                   ELSE (IF i \in keep THEN <<Pick(i)>> ELSE <<>>) \o From(i + 1)
    IN From(1)

C25_DistinctIdentifiers ==
    Handled =>
        \A i, j \in 1..Len(result.outputs.files) :
            (i # j /\ result.outputs.files[i].file_id # Absent) =>
                result.outputs.files[i].file_id # result.outputs.files[j].file_id

----------------------------------------------------------------------------
(* Claims about the walker (SpecWalk) *)

RECURSIVE SumSeq(_)
SumSeq(q) == IF q = <<>> THEN 0 ELSE Head(q) + SumSeq(Tail(q))

\* How many times frame f occurs in the history q.
Occurrences(q, f) == Cardinality({i \in 1..Len(q) : q[i] = f})

\* The three conditions of the filter, read off the mapping itself.
TaggedToolCall(o) == heap[o].kind = "dict" /\ heap[o].tag = "mcp"
CarriesId(o) == heap[o].id # Absent
CarriesName(o) == heap[o].name # Absent /\ heap[o].name # ""

\* C5 (triple-condition filter): every time the walker handles a generic
\* mapping, the mapping yields a record for itself if and only if it is
\* tagged as a tool call, carries an id and carries a non-empty name; the
\* record is built from that mapping's own fields.
C5_TripleConditionFilter ==
    /\ \A i \in 1..Len(visited) :
         LET f == visited[i] IN
         heap[f.obj].kind = "dict" =>
            Occurrences(emitted, f) =
                IF TaggedToolCall(f.obj) /\ CarriesId(f.obj) /\ CarriesName(f.obj)
                THEN Occurrences(visited, f)
                ELSE 0
    /\ Len(emitted) = Len(collected)
    /\ \A i \in 1..Len(emitted) :
         heap[emitted[i].obj].kind = "dict" =>
            /\ collected[i].name = heap[emitted[i].obj].name
            /\ collected[i].id = heap[emitted[i].obj].id

\* A finished walk that handled a mapping tagged as a tool call, with a name
\* but no id, and a mapping with all three; only the second has a record.
C5_Witness ==
    /\ wpc = "returned"
    /\ \E i \in 1..Len(visited) :
         /\ TaggedToolCall(visited[i].obj)
         /\ ~CarriesId(visited[i].obj)
         /\ CarriesName(visited[i].obj)
         /\ Occurrences(emitted, visited[i]) = 0
    /\ \E i \in 1..Len(emitted) :
         /\ TaggedToolCall(emitted[i].obj)
         /\ CarriesId(emitted[i].obj)
         /\ CarriesName(emitted[i].obj)

\* One nesting level below o: the envelope of a wrapper, else every field of
\* a mapping, else every element of a sequence.
NestedIn(o) ==
    IF heap[o].kind = "none" THEN <<>>
    ELSE IF heap[o].data # 0 /\ heap[heap[o].data].kind = "dict"
         THEN <<heap[o].data>>
    ELSE IF heap[o].kind = "dict"
         THEN heap[o].rest
              \o (IF heap[o].calls # 0 THEN <<heap[o].calls>> ELSE <<>>)
              \o (IF heap[o].step # 0 THEN <<heap[o].step>> ELSE <<>>)
    ELSE IF heap[o].kind = "seq" THEN heap[o].items
    ELSE <<>>

\* The number of places at exactly k nesting levels below o that hold n.
RECURSIVE Located(_, _, _)
Located(o, k, n) ==
    IF k = 0 THEN (IF o = n THEN 1 ELSE 0)
    ELSE SumSeq([i \in 1..Len(NestedIn(o)) |-> Located(NestedIn(o)[i], k - 1, n)])

\* An object that is a tool record where it stands: a typed record or a
\* qualifying mapping, not hidden behind its own envelope.
IsToolRecord(o) ==
    /\ ~(heap[o].data # 0 /\ heap[heap[o].data].kind = "dict")
    /\ \/ heap[o].kind = "typed"
       \/ TaggedToolCall(o) /\ CarriesId(o) /\ CarriesName(o)

\* C6 (depth bound): the walk of any graph, cyclic or deep, comes to its
\* return without ever holding a call deeper than DepthBound + 1, and what
\* it returns is exactly the tool records at nesting depth 0..DepthBound
\* from the root, one per place; nothing deeper is visited or emitted.
C6_DepthBound ==
    /\ \A i \in 1..Len(stack) : stack[i].depth <= DepthBound + 1
    /\ \A i \in 1..Len(visited) : visited[i].depth <= DepthBound
    /\ \A i \in 1..Len(emitted) : emitted[i].depth <= DepthBound
    /\ wpc = "walking" => ENABLED NextWalk
    /\ wpc = "returned" =>
         /\ Len(collected) = Len(emitted)
         /\ \A n \in DOMAIN heap : \A d \in 0..(DepthBound + 1) :
              Occurrences(emitted, Frame(n, d)) =
                 IF d <= DepthBound /\ IsToolRecord(n)
                 THEN Located(raw_obj, d, n)
                 ELSE 0

\* A finished walk of a graph in which a tool record lies at depth
\* DepthBound (returned) and again below it (not returned).
C6_Witness ==
    /\ wpc = "returned"
    /\ \E n \in DOMAIN heap :
         /\ IsToolRecord(n)
         /\ Located(raw_obj, DepthBound, n) > 0
         /\ Located(raw_obj, DepthBound + 1, n) > 0
         /\ Occurrences(emitted, Frame(n, DepthBound)) > 0
         /\ Occurrences(emitted, Frame(n, DepthBound + 1)) = 0

\* The fields of mapping o that the walker calls itself on, in call order.
FieldsInCallOrder(o) ==
    (IF heap[o].step # 0 THEN <<heap[o].step>> ELSE <<>>)
    \o (IF heap[o].calls # 0 THEN <<heap[o].calls>> ELSE <<>>)
    \o heap[o].rest

\* A mapping that qualifies as a tool invocation where it stands.
QualifyingMapping(o) ==
    /\ ~(heap[o].data # 0 /\ heap[heap[o].data].kind = "dict")
    /\ TaggedToolCall(o) /\ CarriesId(o) /\ CarriesName(o)

\* C22 (emission does not stop the recursion): the step that handles a
\* qualifying mapping appends its record and calls the walker on its step
\* details, then its tool calls, then every other field; and in a finished
\* walk every qualifying mapping that is a field of an emitted mapping, or an
\* element of a list that is such a field, within the depth bound, has a
\* record after the record of the outer mapping.
C22_EmissionKeepsWalking ==
    /\ [][(Passes /\ QualifyingMapping(Top.obj)) =>
            /\ Len(collected') = Len(collected) + 1
            /\ collected'[Len(collected')].name = heap[Top.obj].name
            /\ stack' = [i \in 1..Len(FieldsInCallOrder(Top.obj)) |->
                            Frame(FieldsInCallOrder(Top.obj)[i], Top.depth + 1)]
                         \o Tail(stack)]_vars
    /\ [](wpc = "returned" =>
            \A i \in 1..Len(emitted) :
               LET o == emitted[i].obj
                   d == emitted[i].depth
               IN heap[o].kind = "dict" =>
                    \A k \in 1..Len(FieldsInCallOrder(o)) :
                       LET n == FieldsInCallOrder(o)[k] IN
                       /\ (QualifyingMapping(n) /\ d + 1 <= DepthBound) =>
                             \E j \in (i + 1)..Len(emitted) :
                                emitted[j] = Frame(n, d + 1)
                       /\ (heap[n].kind = "seq" /\ heap[n].data = 0) =>
                             \A m \in 1..Len(heap[n].items) :
                                (QualifyingMapping(heap[n].items[m])
                                   /\ d + 2 <= DepthBound) =>
                                  \E j \in (i + 1)..Len(emitted) :
                                     emitted[j] = Frame(heap[n].items[m], d + 2))

\* A finished walk of a qualifying mapping whose step details, tool calls
\* and other field each hold a qualifying mapping: four records, the outer
\* one first, then those of the step details, the tool calls and the field.
C22_Witness ==
    /\ wpc = "returned"
    /\ Len(collected) = 4
    /\ collected[1].name = "A"
    /\ emitted[2] = Frame(heap[raw_obj].step, 1)
    /\ collected[3].name = "B"
    /\ collected[4].name = "C"

\* An object that exposes an internal data envelope.
ExposesEnvelope(o) == heap[o].data # 0 /\ heap[heap[o].data].kind = "dict"

\* C23 (the wrapper rule comes first): the step that handles an object
\* exposing an envelope appends no record and calls the walker on the
\* envelope alone; no record is ever that of an object exposing an envelope,
\* a typed tool-call record included.
C23_WrapperFirst ==
    /\ [][(Passes /\ ExposesEnvelope(Top.obj)) =>
            /\ collected' = collected
            /\ stack' = <<Frame(heap[Top.obj].data, Top.depth + 1)>>
                         \o Tail(stack)]_vars
    /\ [](\A i \in 1..Len(emitted) : ~ExposesEnvelope(emitted[i].obj))

\* A finished walk that handled a typed record exposing an envelope and a
\* list-like wrapper: the typed record gave no record, the envelope of each
\* was walked and the wrapper's own element never was.
C23_Witness ==
    /\ wpc = "returned"
    /\ \E i, j \in 1..Len(visited) :
         /\ heap[visited[i].obj].kind = "typed"
         /\ ExposesEnvelope(visited[i].obj)
         /\ Occurrences(emitted, visited[i]) = 0
         /\ Occurrences(visited,
                        Frame(heap[visited[i].obj].data, visited[i].depth + 1)) > 0
         /\ heap[visited[j].obj].kind = "seq"
         /\ ExposesEnvelope(visited[j].obj)
         /\ \A k \in 1..Len(visited) :
              visited[k].obj \notin Range(heap[visited[j].obj].items)

----------------------------------------------------------------------------
(* Claims about the approval loop (SpecLoopFair) *)

\* chat has answered the request, with the outputs or with the error.
Answered == xpc = "responded"

\* The runtime has ended a stream without approval requests, or has raised.
RuntimeSettled == (xpc = "streamed" /\ pending = 0) \/ xpc = "raised"

\* C21 (approval loop termination): a turn is reconciled only after a stream
\* that ended without approval requests and is answered only after such a
\* stream or a raise; once the runtime has ended a stream without requests or
\* has raised, the request is answered; and against a runtime that asks in
\* every stream the turn is never reconciled, its caller is never answered,
\* and the loop submits a new stream again and again, beyond any count.
C21_ApprovalLoopTermination ==
    /\ [](Reconciling => pending = 0)
    /\ [](Answered => (pending = 0 \/ exc \in RuntimeErrors))
    /\ RuntimeSettled ~> Answered
    /\ [](runtime = "always_asks" => (~Reconciling /\ ~Answered))
    /\ (runtime = "always_asks") => []<>(xpc = "stream")
    /\ (runtime = "always_asks") => []<>(xpc = "streamed" /\ pending > 0)

\* The loop still runs after MaxStreams resubmissions.
C21_Witness ==
    /\ runtime = "always_asks"
    /\ Len(approvals) = MaxStreams
    /\ xpc = "streamed"
    /\ NeedsApproval

----------------------------------------------------------------------------
(* Claims about the turns of a thread (SpecThread) *)

\* The identifiers the messages of turn t hold.
RecordedBy(t) ==
    UNION { Range(history[k].attachments) \cup Range(history[k].file_ids) :
              k \in {n \in 1..Len(history) : history[n].turn = t} }

\* C26 (a turn is given its own identifiers only): in the files a turn
\* returns, every reference made by the text scan has no identifier or an
\* identifier that a message of this turn holds, never one that only the
\* messages of an earlier turn of the thread hold.
C26_OwnIdentifiersOnly ==
    Handled =>
        \A i \in 1..Len(result.outputs.files) :
            (Named(result.outputs.files, i)
               /\ result.outputs.files[i].file_id # Absent) =>
                result.outputs.files[i].file_id \in RecordedBy(CurrentTurn)

----------------------------------------------------------------------------
(* Claims about the requests of a session (SpecSessions) *)

\* C27 (one turn in flight per thread): no two requests of the session are
\* inside handle_agent_query on the same thread at once; and, when no
\* request clears the session, every request that has read its thread has
\* the same thread and at most one thread was ever created for the session.
C27_OneTurnPerThread ==
    /\ \A r1, r2 \in Requests :
         (r1 # r2 /\ rpc[r1] = "in_turn" /\ rpc[r2] = "in_turn") =>
            rthread[r1] # rthread[r2]
    /\ (\A r \in Requests : rkind[r] = "chat") =>
         /\ created.threads <= 1
         /\ \A r1, r2 \in Requests :
              (rthread[r1] # NoThread /\ rthread[r2] # NoThread) =>
                 rthread[r1] = rthread[r2]

\* C28 (the agent is initialized once): at most one client and one agent
\* are ever created, and the thread of the session and the thread of every
\* request that is about to run or is running its turn were created by the
\* agent the global holds.
C28_InitializedOnce ==
    /\ created.clients <= 1
    /\ created.agents <= 1
    /\ threads # NoThread => threads.agent = agent
    /\ \A r \in Requests :
         rpc[r] \in {"submit", "in_turn"} => rthread[r].agent = agent

----------------------------------------------------------------------------
(* Claims about the bridge (SpecBridge) *)

\* The threads started to run a loop.
LoopThreads == {c \in Callers : tpc[c] # "none"}

\* C7 (single loop): under every interleaving of the callers, at most one
\* event loop and one loop thread are ever created, and all submitted work
\* is queued on the same loop.
C7_SingleLoop ==
    /\ Len(loops) <= 1
    /\ Cardinality(LoopThreads) <= 1
    /\ \A f, g \in 1..Len(tasks) : tasks[f].loop = tasks[g].loop

\* C8 (start guard): a caller to whom _start_agent_loop has returned holds a
\* loop that is running, and a caller released by loop_ready has a loop
\* thread that has entered run_forever.
C8_StartGuard ==
    \A c \in Callers :
        /\ cpc[c] = "submit" => loops[loop[c]].running
        /\ (cpc[c] \in {"return", "submit"} /\ tpc[c] # "none") =>
              tpc[c] \in {"running", "raised"}

\* What the work item submitted by caller c returns or raises.
OwnOutcome(c) ==
    IF Raises(Payload(c)) THEN ErrorOf(Payload(c)) ELSE ResultOf(Payload(c))

\* C9 (correlation): a call that returns a result or raises a work item's
\* error returns or raises that of the work item its caller submitted, and
\* every future is completed with the outcome of its own work item.
C9_Correlation ==
    /\ \A c \in Callers :
         outcome[c].kind \in {"result", "exception"} =>
            /\ outcome[c] = OwnOutcome(c)
            /\ tasks[future[c]].payload = Payload(c)
    /\ \A f \in 1..Len(futures) :
         futures[f].kind # "pending" => futures[f].of = tasks[f].payload

\* Every caller has its own outcome, one a result and one an error, from
\* work queued on one loop in the reverse of the callers' order.
C9_Witness ==
    /\ \A c \in Callers : outcome[c] = OwnOutcome(c)
    /\ \E c, d \in Callers :
         /\ c < d
         /\ future[d] < future[c]
         /\ tasks[future[c]].loop = tasks[future[d]].loop
         /\ outcome[c].kind # outcome[d].kind

\* Caller c leaves future.result while its future is pending.
TimesOut(c) ==
    /\ cpc[c] = "result"
    /\ cpc'[c] = "done"
    /\ futures[future[c]].kind = "pending"

\* C10 (timeout detaches the waiter): a call that leaves future.result with
\* its work unfinished was given a timeout and fails with the timeout
\* error; that step changes no work item, no future and no loop queue, and
\* no other caller; and no work item is ever cancelled: once running it
\* stays running until it is done.
C10_TimeoutDetaches ==
    [][ /\ \A c \in Callers :
             TimesOut(c) =>
                /\ timeout[c]
                /\ outcome'[c] = TimeoutError
                /\ tasks' = tasks
                /\ futures' = futures
                /\ loops' = loops
                /\ \A d \in Callers \ {c} :
                     /\ cpc'[d] = cpc[d]
                     /\ outcome'[d] = outcome[d]
                     /\ future'[d] = future[d]
        /\ \A f \in 1..Len(tasks) :
             /\ tasks'[f].state \in {"queued", "running", "done"}
             /\ tasks[f].state = "running" => tasks'[f].state \in {"running", "done"}
             /\ tasks[f].state = "done" => tasks'[f].state = "done"
      ]_vars

\* C10 (the work completes): the work item of a call that failed with the
\* timeout error is eventually run to completion on its loop.
C10_WorkRunsToCompletion ==
    \A c \in Callers :
        (outcome[c] = TimeoutError) ~>
            (future[c] # 0 /\ tasks[future[c]].state = "done")

\* A caller has timed out, its work item has since run to completion and
\* completed its future, and another caller has the result of its own work.
C10_Witness ==
    \E c, d \in Callers :
        /\ c # d
        /\ outcome[c] = TimeoutError
        /\ tasks[future[c]].state = "done"
        /\ futures[future[c]] = OwnOutcome(c)
        /\ outcome[d] = OwnOutcome(d)

====
